---- MODULE Spec2Model ----
(***************************************************************************)
(* A model of the Venturelens analysis core:                               *)
(*   - the PDF extraction fallback chain and the pitch-deck pipeline       *)
(*     (document_preprocessing_agent/agent.py),                            *)
(*   - the page-rasterization strategy with its temporary blobs,           *)
(*   - the benchmark scoring engine (benchmarking_agent/tools.py).         *)
(* Every component has its own specification (SpecChain, SpecImages, ...)  *)
(* over the shared variables; a component that a specification does not    *)
(* run stays in its idle state.                                            *)
(*                                                                         *)
(* Numbers: Python floats are modelled by scaled integers.  A name ending  *)
(* in 10 is the value times 10 (score 8.5 is 85), a name ending in 100 is  *)
(* the value times 100 (weight 0.25 is 25).                                *)
(***************************************************************************)
EXTENDS Integers, Sequences, FiniteSets, TLC

VARIABLES
    \* upload_and_analyze_pitch_deck / enhanced_pdf_extraction_pipeline
    file,           \* the input file: does it exist, its size in bytes,
                    \* the path given (argument) and the value of the
                    \* variable local_file_path, which Step 0 may replace
    pc,             \* position in upload_and_analyze_pitch_deck
    steps,          \* the calls the pipeline has made so far, in order
    gcs_result,     \* the value returned by upload_file_to_gcs
    invoked,        \* the extraction strategies invoked so far, in order
    attempts,       \* the result of each invoked strategy, in order
    vision_result,  \* the value returned by the extraction step
    ret,            \* the value returned by upload_and_analyze_pitch_deck
    \* convert_pdf_to_images_and_extract
    img_pc,         \* position in convert_pdf_to_images_and_extract
    images,         \* number of page images convert_from_path produced
    page,           \* the loop index i of agent.py:69 (0-based)
    staged,         \* pages whose temporary blob was uploaded
    deleted,        \* pages for whose blob a delete was issued
    all_text,       \* pages whose text was appended to all_text
    img_result,     \* the value returned
    \* the benchmark engine
    eng_pc,         \* "called" while a call is pending, "returned" after it
    call,           \* the pending call: the function and its arguments
    eng_result      \* the value the call returned

chainVars == <<file, pc, steps, gcs_result, invoked, attempts, vision_result, ret>>
imgVars == <<img_pc, images, page, staged, deleted, all_text, img_result>>
engVars == <<eng_pc, call, eng_result>>

vars == <<chainVars, imgVars, engVars>>

notChain == <<imgVars, engVars>>
notImg == <<chainVars, engVars>>
notEng == <<chainVars, imgVars>>

None == [none |-> TRUE]

----------------------------------------------------------------------------
(* Strings that the code lower-cases, searches or takes apart are          *)
(* sequences of one-character strings.  A character that a string constant *)
(* of this language cannot hold is written by its code point, "<U+00C9>".  *)
(* The characters are those of ASCII and Latin-1.                          *)

\* The letters str.lower() changes: A-Z and the capital letters of Latin-1
\* (U+00C0-U+00DE without the multiplication sign U+00D7)
UpperAlphabet == << "A","B","C","D","E","F","G","H","I","J","K","L","M",
                    "N","O","P","Q","R","S","T","U","V","W","X","Y","Z",
                    "<U+00C0>", "<U+00C1>", "<U+00C2>", "<U+00C3>", "<U+00C4>", "<U+00C5>",
                    "<U+00C6>", "<U+00C7>", "<U+00C8>", "<U+00C9>", "<U+00CA>", "<U+00CB>",
                    "<U+00CC>", "<U+00CD>", "<U+00CE>", "<U+00CF>", "<U+00D0>", "<U+00D1>",
                    "<U+00D2>", "<U+00D3>", "<U+00D4>", "<U+00D5>", "<U+00D6>", "<U+00D8>",
                    "<U+00D9>", "<U+00DA>", "<U+00DB>", "<U+00DC>", "<U+00DD>", "<U+00DE>" >>
\* and what it makes of each (U+00E0-U+00FE without the division sign)
LowerAlphabet == << "a","b","c","d","e","f","g","h","i","j","k","l","m",
                    "n","o","p","q","r","s","t","u","v","w","x","y","z",
                    "<U+00E0>", "<U+00E1>", "<U+00E2>", "<U+00E3>", "<U+00E4>", "<U+00E5>",
                    "<U+00E6>", "<U+00E7>", "<U+00E8>", "<U+00E9>", "<U+00EA>", "<U+00EB>",
                    "<U+00EC>", "<U+00ED>", "<U+00EE>", "<U+00EF>", "<U+00F0>", "<U+00F1>",
                    "<U+00F2>", "<U+00F3>", "<U+00F4>", "<U+00F5>", "<U+00F6>", "<U+00F8>",
                    "<U+00F9>", "<U+00FA>", "<U+00FB>", "<U+00FC>", "<U+00FD>", "<U+00FE>" >>

\* str.lower() on one character
LowerChar(c) ==
    IF \E i \in 1..Len(UpperAlphabet) : UpperAlphabet[i] = c
      THEN LowerAlphabet[CHOOSE i \in 1..Len(UpperAlphabet) : UpperAlphabet[i] = c]
      ELSE c

\* str.lower()
Lower(str) == [i \in 1..Len(str) |-> LowerChar(str[i])]

\* str.endswith(suffix)
EndsWith(str, suffix) ==
    Len(str) >= Len(suffix)
      /\ SubSeq(str, Len(str) - Len(suffix) + 1, Len(str)) = suffix

\* str.rfind(ch): the last position of ch in str (1-based), 0 when there is
\* none (Python: -1)
RFind(str, ch) ==
    IF \E i \in 1..Len(str) : str[i] = ch
      THEN CHOOSE i \in 1..Len(str) :
             str[i] = ch /\ \A j \in (i + 1)..Len(str) : str[j] # ch
      ELSE 0

\* The characters of a sequence joined into one string
RECURSIVE Str(_)
Str(chars) == IF chars = << >> THEN "" ELSE chars[1] \o Str(Tail(chars))

\* the Python test  sub in str
Contains(sub, str) ==
    \E i \in 0..(Len(str) - Len(sub)) : SubSeq(str, i + 1, i + Len(sub)) = sub

S_SaaS == << "S","a","a","S" >>
S_saas == << "s","a","a","s" >>
S_ecommerce == << "e","c","o","m","m","e","r","c","e" >>
S_fintech == << "f","i","n","t","e","c","h" >>
S_FinTech == << "F","i","n","T","e","c","h" >>
S_marketplace == << "m","a","r","k","e","t","p","l","a","c","e" >>
S_healthcare == << "h","e","a","l","t","h","c","a","r","e" >>
S_biotech == << "b","i","o","t","e","c","h" >>
S_agritech == << "a","g","r","i","t","e","c","h" >>
S_seed == << "s","e","e","d" >>
S_Seed == << "S","e","e","d" >>
S_pre_series_a == << "p","r","e","_","s","e","r","i","e","s","_","a" >>
S_series_a == << "s","e","r","i","e","s","_","a" >>
S_series_b == << "s","e","r","i","e","s","_","b" >>
S_growth == << "g","r","o","w","t","h" >>
S_pre_ipo == << "p","r","e","_","i","p","o" >>
S_late == << "l","a","t","e" >>
S_retail == << "r","e","t","a","i","l" >>
S_Healthcare == << "H","e","a","l","t","h","c","a","r","e" >>
S_series_c == << "s","e","r","i","e","s","_","c" >>
S_late_seed == S_late \o << " " >> \o S_seed
S_growth_late == S_growth \o << " " >> \o S_late

\* An optional field of company_data: <<>> when the key is absent, <<v>>
\* when it is present with value v.  dict.get(key, default):
Get(field, default) == IF field = <<>> THEN default ELSE field[1]

----------------------------------------------------------------------------
(* The extraction fallback chain                                           *)

\* agent.py:279 -- the word threshold of the acceptance test
MinWords == 50

\* Mutant of Strategies: PyMuPDF is called before pdfplumber.
Strategies_Swapped ==
    << "extract_text_from_pdf_async",
       "extract_text_with_pymupdf",
       "extract_text_with_pdfplumber",
       "convert_pdf_to_images_and_extract",
       "extract_text_from_pdf_directly" >>

\* agent.py:278, 284, 290, 296, 302 -- the five strategies in the order the
\* pipeline calls them
Strategies ==
    << "extract_text_from_pdf_async",
       "extract_text_with_pdfplumber",
       "extract_text_with_pymupdf",
       "convert_pdf_to_images_and_extract",
       "extract_text_from_pdf_directly" >>

\* The "method" a successful result of each strategy carries.
MethodOf(i) ==
    CASE i = 1 -> {"async_pdf_document_detection"}
      [] i = 2 -> {"direct_pdf_pdfplumber"}
      [] i = 3 -> {"direct_pdf_pymupdf"}
      [] i = 4 -> {"pdf_to_images_vision"}
      [] i = 5 -> {"direct_pdf_pypdf2", "direct_pdf_pdftotext"}

\* The text of an exception raised by a library call (str(e)).
ExceptionTexts == {"Unable to get page count."}

\* The text of the ImportError for PyPDF2 (agent.py:881, 938-939)
NoPyPDF2 == "No module named 'PyPDF2'"

\* The "error" a failed result of each strategy carries: the strategy found
\* no text, its library is not installed, or a call raised.
\* agent.py:499-500, 528, 530-532 (1); 249-250, 263-269 (2); 186-187,
\* 200-206 (3); 39-43, 60-61, 113-114, 128-132 (4); 936-939 (5).
ErrorsOf(i) ==
    CASE i = 1 -> {"No output files generated", "No valid text found in output files"}
                  \cup {"Async PDF extraction failed: " \o e : e \in ExceptionTexts}
      [] i = 2 -> {"No text extracted with pdfplumber",
                   "pdfplumber not installed. Run: pip install pdfplumber"}
                  \cup {"pdfplumber extraction failed: " \o e : e \in ExceptionTexts}
      [] i = 3 -> {"No text extracted with PyMuPDF",
                   "PyMuPDF not installed. Run: pip install PyMuPDF"}
                  \cup {"PyMuPDF extraction failed: " \o e : e \in ExceptionTexts}
      [] i = 4 -> {"No text extracted from any PDF page",
                   "pdf2image library not installed. Run: pip install pdf2image",
                   "No images generated from PDF"}
                  \cup {"PDF to image conversion failed: " \o e : e \in ExceptionTexts}
                  \cup {"PDF image extraction failed: " \o e : e \in ExceptionTexts}
      [] i = 5 -> {"All direct PDF extraction methods failed"}
                  \cup {"Direct PDF extraction failed: " \o e :
                          e \in ExceptionTexts \cup {NoPyPDF2}}

\* agent.py:654 -- the least length of stripped text analyze_startup_content
\* analyses
MinChars == 50

\* agent.py:121-122, 193-194, 256-257, 521-522, 607-608, 642-643, 905-906,
\* 927-928 -- word_count is len(text.split()) of the extracted text, so a
\* text of w words has at least 2w - 1 characters.  The text is modelled by
\* the length of text.strip().  The texts a successful extraction returns
\* here: word counts around the threshold of the chain and lengths around
\* the threshold of analyze_startup_content.
TextSamples ==
    {[word_count |-> 5, extracted_text |-> MinChars - 1],
     [word_count |-> 5, extracted_text |-> MinChars],
     [word_count |-> 30, extracted_text |-> 400],
     [word_count |-> MinWords, extracted_text |-> 400],
     [word_count |-> MinWords + 1, extracted_text |-> 400],
     [word_count |-> 200, extracted_text |-> 400]}

\* The successful result dicts carrying one of the given methods.
SuccessResults(methods) ==
    {[success |-> TRUE, extracted_text |-> t.extracted_text,
      word_count |-> t.word_count, method |-> m] :
        t \in TextSamples, m \in methods}

\* Every result dict strategy i can return.
StrategyResults(i) ==
    SuccessResults(MethodOf(i))
    \cup {[success |-> FALSE, error |-> e] : e \in ErrorsOf(i)}

\* agent.py:310-315
Suggestions ==
    << "PDF may be password-protected or corrupted",
       "Try manually converting PDF to text or images first",
       "Check if PDF contains only images without OCR text layer",
       "Consider using a different file format (DOCX, PPTX, TXT)" >>

\* Mutant of AcceptsSufficient: the threshold test is >= instead of >.
AcceptsSufficient_AtLeast(result) ==
    result.success /\ result.word_count >= MinWords

\* agent.py:279, 285, 291, 297 -- the test after each of the first four strategies
AcceptsSufficient(result) ==
    result.success /\ result.word_count > MinWords

\* agent.py:303 -- the test after the final fallback
AcceptsFallback(result) ==
    result.success

\* agent.py:307-316 -- the dict returned when no strategy was accepted
AllFailedResult(last) ==
    [success |-> FALSE,
     error |-> "All PDF extraction methods failed",
     suggestions |-> Suggestions]

\* A fixed token for str(uuid.uuid4()) of agent.py:329
SessionId == "session-1"

\* agent.py:26 -- the default of BUCKET_NAME
BucketName == "pitch-deck-analysis-bucket"

\* A fixed token for datetime.utcnow().strftime("%Y%m%d_%H%M%S") of agent.py:432
Timestamp == "20240101_000000"

\* os.path.basename(path)
Basename(path) == SubSeq(path, RFind(path, "/") + 1, Len(path))

\* os.path.splitext(path)[0]: the path without its extension, which starts
\* at the last dot of the last component unless only dots come before it
SplitextRoot(path) ==
    LET sep == RFind(path, "/")
        dot == RFind(path, ".")
    IN  IF dot > sep /\ \E i \in (sep + 1)..(dot - 1) : path[i] # "."
          THEN SubSeq(path, 1, dot - 1)
          ELSE path

\* agent.py:342, 365 -- local_file_path.lower().endswith('.pdf')
IsPdf(local_file_path) == EndsWith(Lower(local_file_path), << ".","p","d","f" >>)

\* agent.py:428-438 -- the object URI upload_file_to_gcs returns
GcsUri(local_file_path) ==
    "gs://" \o BucketName \o "/pitch-decks/" \o Timestamp \o "_"
      \o Str(Basename(local_file_path))

\* agent.py:376-381 -- the suggestions used when the chain's result has none
DefaultSuggestions ==
    << "PDF may have complex formatting, corrupted content, or unsupported features",
       "Try converting PDF to images first using pdf2image",
       "Consider using a different PDF processing tool",
       "Check if PDF is password-protected or has restrictions" >>

\* dict.get(key, default) on a result dict
GetField(d, key, default) == IF key \in DOMAIN d THEN d[key] ELSE default

\* One call of strategy i returning result (the call and its logged result).
Invoke(i, result) ==
    /\ invoked' = Append(invoked, Strategies[i])
    /\ attempts' = Append(attempts, result)

\* Mutant of Handler: the exception is passed on to the caller.
Handler_Reraise(e) ==
    [raised |-> e]

\* agent.py:412-418 -- the handler around the whole pipeline: an exception
\* raised by any step becomes a failure result
Handler(e) ==
    [success |-> FALSE, error |-> e, session_id |-> SessionId]

\* agent.py:852-853 -- the path of the copy preprocess_problematic_pdf writes
CleanedPath(local_file_path) ==
    SplitextRoot(local_file_path)
      \o << "_","c","l","e","a","n","e","d",".","p","d","f" >>

\* agent.py:335-340 -- the file-existence check
CheckFile ==
    /\ pc = "check"
    /\ IF ~file.exists
         THEN /\ ret' = [success |-> FALSE,
                         error |-> "File not found: " \o Str(file.local_file_path),
                         session_id |-> SessionId]
              /\ pc' = "returned"
         ELSE /\ pc' = "preprocess"
              /\ ret' = ret
    /\ steps' = Append(steps, [call |-> "os.path.exists"])
    /\ UNCHANGED <<file, gcs_result, invoked, attempts, vision_result, notChain>>

\* agent.py:344 -- the size above which a PDF is pre-processed
LargeFileBytes == 5 * 1024 * 1024

\* agent.py:868 -- the size the cleaned copy has to exceed
MinCleanedBytes == 1000

\* What the ghostscript run of preprocess_problematic_pdf can do: exit with a
\* return code and leave an output file of some size or none (size 0 is no
\* file), time out after 60 s, or raise (the tool is not installed).
PreprocessOutcomes ==
    {[kind |-> "exited", returncode |-> 1, output_bytes |-> 0],
     [kind |-> "exited", returncode |-> 1, output_bytes |-> MinCleanedBytes + 1],
     [kind |-> "exited", returncode |-> 0, output_bytes |-> 0],
     [kind |-> "exited", returncode |-> 0, output_bytes |-> MinCleanedBytes],
     [kind |-> "exited", returncode |-> 0, output_bytes |-> MinCleanedBytes + 1],
     [kind |-> "timeout"],
     [kind |-> "raised"]}

\* agent.py:845-875 -- preprocess_problematic_pdf: the path it returns
PreprocessProblematicPdf(local_file_path, outcome) ==
    IF outcome.kind # "exited"
      THEN local_file_path                          \* agent.py:873-875
      ELSE IF /\ outcome.returncode = 0
              /\ outcome.output_bytes > 0           \* os.path.exists(cleaned_path)
              /\ outcome.output_bytes > MinCleanedBytes
             THEN CleanedPath(local_file_path)
             ELSE local_file_path

\* Mutant of NeedsPreprocessing: a PDF of exactly 5 MiB is pre-processed too.
NeedsPreprocessing_AtLeast(is_pdf, file_size) ==
    is_pdf /\ file_size >= LargeFileBytes

\* agent.py:342-344 -- the test that decides on Step 0
NeedsPreprocessing(is_pdf, file_size) ==
    is_pdf /\ file_size > LargeFileBytes

\* agent.py:341-346 -- Step 0: a PDF larger than 5 MiB is handed to
\* preprocess_problematic_pdf and the pipeline goes on with the path that
\* returns; os.path.getsize raises when the file is gone by now
Preprocess ==
    /\ pc = "preprocess"
    /\ IF ~IsPdf(file.local_file_path)
         THEN file' = file /\ ret' = ret /\ pc' = "upload" /\ steps' = steps
         ELSE \E getsize_raises \in BOOLEAN, outcome \in PreprocessOutcomes :
                IF getsize_raises
                  THEN /\ ret' = Handler("[Errno 2] No such file or directory: '"
                                           \o Str(file.local_file_path) \o "'")
                       /\ pc' = "returned"
                       /\ file' = file
                       /\ steps' = steps
                  ELSE IF NeedsPreprocessing(IsPdf(file.local_file_path), file.size)
                    THEN /\ file' = [file EXCEPT !.local_file_path =
                                        PreprocessProblematicPdf(file.local_file_path,
                                                                 outcome)]
                         /\ steps' = Append(steps,
                                [call |-> "preprocess_problematic_pdf",
                                 outcome |-> outcome])
                         /\ ret' = ret
                         /\ pc' = "upload"
                    ELSE /\ file' = file
                         /\ steps' = steps
                         /\ ret' = ret
                         /\ pc' = "upload"
    /\ UNCHANGED <<gcs_result, invoked, attempts, vision_result, notChain>>

\* agent.py:420-448 -- the result dicts of upload_file_to_gcs (file_size and
\* gcs_path are left out)
UploadResults(local_file_path) ==
    {[success |-> TRUE, gcs_uri |-> GcsUri(local_file_path)],
     [success |-> FALSE, error |-> "bucket not found"]}

\* Mutant of UploadSucceeded: the result of the upload is not looked at.
UploadSucceeded_Always(result) ==
    TRUE

\* agent.py:351 -- the test of the upload's result
UploadSucceeded(result) ==
    result.success

\* agent.py:348-358, 364-366, 383-385 -- Step 1: upload_file_to_gcs, and the
\* dispatch on the file type
Upload ==
    /\ pc = "upload"
    /\ \E result \in UploadResults(file.local_file_path) :
         /\ gcs_result' = result
         /\ IF ~UploadSucceeded(result)
              THEN /\ ret' = [success |-> FALSE,
                              error |-> "Upload failed: " \o result.error,
                              session_id |-> SessionId]
                   /\ pc' = "returned"
              ELSE /\ pc' = IF IsPdf(file.local_file_path) THEN "method1"
                                                                 ELSE "vision"
                   /\ ret' = ret
    /\ steps' = Append(steps, [call |-> "upload_file_to_gcs",
                               path |-> file.local_file_path])
    /\ UNCHANGED <<file, invoked, attempts, vision_result, notChain>>

\* agent.py:277-281 -- Method 1: async Vision API
Method1 ==
    /\ pc = "method1"
    /\ \E result \in StrategyResults(1) :
         /\ Invoke(1, result)
         /\ IF AcceptsSufficient(result)
              THEN vision_result' = result /\ pc' = "chain_returned"
              ELSE vision_result' = vision_result /\ pc' = "method2"
    /\ steps' = Append(steps, [call |-> "enhanced_pdf_extraction_pipeline",
                               path |-> file.local_file_path])
    /\ UNCHANGED <<file, gcs_result, ret, notChain>>

\* agent.py:283-287 -- Method 2: pdfplumber
Method2 ==
    /\ pc = "method2"
    /\ \E result \in StrategyResults(2) :
         /\ Invoke(2, result)
         /\ IF AcceptsSufficient(result)
              THEN vision_result' = result /\ pc' = "chain_returned"
              ELSE vision_result' = vision_result /\ pc' = "method3"
    /\ UNCHANGED <<file, steps, gcs_result, ret, notChain>>

\* agent.py:289-293 -- Method 3: PyMuPDF
Method3 ==
    /\ pc = "method3"
    /\ \E result \in StrategyResults(3) :
         /\ Invoke(3, result)
         /\ IF AcceptsSufficient(result)
              THEN vision_result' = result /\ pc' = "chain_returned"
              ELSE vision_result' = vision_result /\ pc' = "method4"
    /\ UNCHANGED <<file, steps, gcs_result, ret, notChain>>

\* agent.py:295-299 -- Method 4: PDF pages to images + Vision API
Method4 ==
    /\ pc = "method4"
    /\ \E result \in StrategyResults(4) :
         /\ Invoke(4, result)
         /\ IF AcceptsSufficient(result)
              THEN vision_result' = result /\ pc' = "chain_returned"
              ELSE vision_result' = vision_result /\ pc' = "method5"
    /\ UNCHANGED <<file, steps, gcs_result, ret, notChain>>

\* agent.py:301-316 -- Method 5: PyPDF2 / pdftotext as the final fallback,
\* and the return when it is not accepted either
Method5 ==
    /\ pc = "method5"
    /\ \E result \in StrategyResults(5) :
         /\ Invoke(5, result)
         /\ IF AcceptsFallback(result)
              THEN vision_result' = result
              ELSE vision_result' = AllFailedResult(result)
         /\ pc' = "chain_returned"
    /\ UNCHANGED <<file, steps, gcs_result, ret, notChain>>

\* agent.py:370-382 -- the caller's test of the chain's result
CheckExtraction ==
    /\ pc = "chain_returned"
    /\ IF ~vision_result.success
         THEN /\ ret' = [success |-> FALSE,
                         error |-> "All PDF extraction methods failed: "
                                     \o GetField(vision_result, "error", "Unknown error"),
                         session_id |-> SessionId,
                         gcs_uri |-> gcs_result.gcs_uri,
                         suggestions |-> GetField(vision_result, "suggestions",
                                                  DefaultSuggestions)]
              /\ pc' = "returned"
         ELSE /\ pc' = "analyze"
              /\ ret' = ret
    /\ UNCHANGED <<file, steps, gcs_result, invoked, attempts, vision_result, notChain>>

\* Error messages the Vision service answers with (response.error.message)
M_BadImageData == << "B","a","d"," ","i","m","a","g","e"," ","d","a","t","a","." >>
M_InvalidUri == << "I","n","v","a","l","i","d"," ","i","m","a","g","e"," ","U","R","I","." >>
M_PermissionDenied == << "P","e","r","m","i","s","s","i","o","n"," ","d","e","n","i","e","d","." >>

ServiceMessages == {M_BadImageData, M_InvalidUri, M_PermissionDenied}

\* agent.py:586 -- "Bad image data" in message or "invalid" in message.lower()
IsFormatError(message) ==
    Contains(<< "B","a","d"," ","i","m","a","g","e"," ","d","a","t","a" >>, message) \/ Contains(<< "i","n","v","a","l","i","d" >>, Lower(message))

\* agent.py:584-589 -- the failure of extract_text_vision_api on an error
\* message of the service
VisionApiError(message) ==
    IF IsFormatError(message)
      THEN [success |-> FALSE, error |-> "bad_image_format",
            original_error |-> Str(message)]
      ELSE [success |-> FALSE, error |-> Str(message)]

\* agent.py:570-615 -- the result dicts of extract_text_vision_api: the text
\* of the document, the service's error, no annotation, or the text of an
\* exception
VisionApiResults ==
    SuccessResults({"cloud_vision_document"})
      \cup { VisionApiError(message) : message \in ServiceMessages }
      \cup [success : {FALSE}, error : {"No text found in document"}]
      \cup [success : {FALSE}, error : ExceptionTexts]

\* agent.py:617-650 -- the result dicts of extract_text_vision_simple
VisionSimpleResults ==
    SuccessResults({"cloud_vision_simple"})
      \cup [success : {FALSE}, error : { Str(message) : message \in ServiceMessages }]
      \cup [success : {FALSE}, error : {"No text found with simple detection"}]
      \cup [success : {FALSE}, error : ExceptionTexts]

\* agent.py:534-564 -- extract_text_with_vision from the results of the two
\* detections: the result of the first that succeeds, or the failure that
\* carries the errors of both
ExtractTextWithVision(vision_api_result, vision_simple_result) ==
    IF vision_api_result.success THEN vision_api_result
    ELSE IF vision_simple_result.success THEN vision_simple_result
    ELSE [success |-> FALSE,
          error |-> "All Vision API methods failed for this file format",
          vision_error |-> vision_api_result.error,
          simple_vision_error |-> vision_simple_result.error]

\* The results of extract_text_with_vision
VisionResults ==
    { ExtractTextWithVision(vision_api_result, vision_simple_result) :
        vision_api_result \in VisionApiResults,
        vision_simple_result \in VisionSimpleResults }

\* agent.py:383-387, 412-418 -- a non-PDF file: extract_text_with_vision;
\* a failed result has no "extracted_text", the lookup of line 387 raises
\* KeyError and the handler of line 412 turns it into a failure result
Vision ==
    /\ pc = "vision"
    /\ \E result \in VisionResults :
         /\ vision_result' = result
         /\ IF "extracted_text" \in DOMAIN result
              THEN pc' = "analyze" /\ ret' = ret
              ELSE ret' = Handler("'extracted_text'") /\ pc' = "returned"
    /\ steps' = Append(steps, [call |-> "extract_text_with_vision"])
    /\ UNCHANGED <<file, gcs_result, invoked, attempts, notChain>>

\* agent.py:652-681 -- analyze_startup_content on a text of the given
\* stripped length; fields_found of the four required fields were found in
\* it (the extracted sections themselves are left out)
AnalyzeStartupContent(text, fields_found) ==
    IF text < MinChars
      THEN [success |-> FALSE,
            error |-> "Insufficient text content for analysis",
            company_name |-> "Unknown",
            confidence_score100 |-> 0]
      ELSE [success |-> TRUE, confidence_score100 |-> 25 * fields_found]

\* agent.py:395-402 -- the metadata added to the analysis (the file size and
\* the OCR confidence are left out)
Metadata ==
    [session_id |-> SessionId,
     gcs_uri |-> gcs_result.gcs_uri,
     original_filename |-> Str(Basename(file.local_file_path)),
     extraction_method |-> GetField(vision_result, "method", "unknown")]

\* dict.update, then one more key
Updated(analysis, metadata, bigquery_success) ==
    [key \in DOMAIN analysis \cup DOMAIN metadata \cup {"bigquery_saved"} |->
        IF key = "bigquery_saved" THEN bigquery_success
        ELSE IF key \in DOMAIN metadata THEN metadata[key]
        ELSE analysis[key]]

\* agent.py:676-677 -- how many of the four required fields hold a text of
\* more than 10 characters: any number from none (a short title line and
\* no section) to all four
FieldsFound == 0..4

\* agent.py:387-410 -- Step 3 and Step 4: content analysis, the metadata
\* update and the warehouse write, whose outcome only sets bigquery_saved
AnalyzeAndSave ==
    /\ pc = "analyze"
    /\ \E fields_found \in FieldsFound, bigquery_success \in BOOLEAN :
         ret' = Updated(AnalyzeStartupContent(vision_result.extracted_text,
                                              fields_found),
                        Metadata, bigquery_success)
    /\ pc' = "returned"
    /\ steps' = steps \o << [call |-> "analyze_startup_content"],
                            [call |-> "save_to_bigquery"] >>
    /\ UNCHANGED <<file, gcs_result, invoked, attempts, vision_result, notChain>>

ChainIdle ==
    /\ file = None
    /\ pc = "idle"
    /\ steps = <<>>
    /\ gcs_result = None
    /\ invoked = <<>>
    /\ attempts = <<>>
    /\ vision_result = None
    /\ ret = None

EngIdle ==
    /\ eng_pc = "idle"
    /\ call = None
    /\ eng_result = None

ImgIdle ==
    /\ img_pc = "idle"
    /\ images = 0
    /\ page = 0
    /\ staged = {}
    /\ deleted = {}
    /\ all_text = <<>>
    /\ img_result = None

\* File sizes around the pre-processing threshold.
FileSizes == {LargeFileBytes, LargeFileBytes + 1}

\* The paths the pipeline is called with: a PDF whose extension is in upper
\* case and a presentation, both in a directory.
InputPaths ==
    { << "i","n","/","d","e","c","k",".","P","D","F" >>,
      << "i","n","/","d","e","c","k",".","p","p","t","x" >> }

InitChain ==
    /\ ImgIdle
    /\ EngIdle
    /\ \E exists \in BOOLEAN, path \in InputPaths, size \in FileSizes :
         file = [exists |-> exists, size |-> size, argument |-> path,
                 local_file_path |-> path]
    /\ pc = "check"
    /\ steps = <<>>
    /\ gcs_result = None
    /\ invoked = <<>>
    /\ attempts = <<>>
    /\ vision_result = None
    /\ ret = None

NextChain ==
    \/ CheckFile
    \/ Preprocess
    \/ Upload
    \/ Method1
    \/ Method2
    \/ Method3
    \/ Method4
    \/ Method5
    \/ CheckExtraction
    \/ Vision
    \/ AnalyzeAndSave

SpecChain == InitChain /\ [][NextChain]_vars

----------------------------------------------------------------------------
(* Properties of the extraction chain                                      *)

\* The positions at which the chain has returned to its caller.
AfterChain == pc \in {"chain_returned", "analyze", "returned"} /\ attempts # <<>>

\* C1 (as claimed): every strategy, the final fallback included, has its
\* result returned as the accepted result if and only if the result has
\* success = true and word_count > 50.
C1_AcceptIffSufficientAll ==
    AfterChain =>
        \A i \in 1..Len(attempts) :
            (i = Len(attempts) /\ vision_result = attempts[i])
                <=> (attempts[i].success /\ attempts[i].word_count > 50)

\* C1 (amended): a result of one of the first four strategies is returned as
\* the accepted result if and only if it has success = true and
\* word_count > 50; a result of the final fallback is returned as the accepted
\* result if and only if it has success = true, whatever its word count.  A
\* result that is not accepted makes the chain advance to the next strategy,
\* or end without an accepted result after the final fallback.
C1_AcceptRule ==
    \A i \in 1..Len(attempts) :
        LET r == attempts[i]
            ok == IF i < 5 THEN r.success /\ r.word_count > 50 ELSE r.success
        IN  /\ ok => /\ i = Len(attempts)
                     /\ AfterChain
                     /\ vision_result = r
            /\ (~ok /\ i < 5) =>
                   \/ Len(attempts) > i
                   \/ pc = <<"method2", "method3", "method4", "method5">>[i]
            /\ (~ok /\ i = 5) => /\ AfterChain
                                 /\ ~vision_result.success
                                 /\ vision_result # r

\* C1 witness: the final fallback returned a successful result of at most 50
\* words and the chain returned it.
C1_Witness ==
    /\ pc = "chain_returned"
    /\ Len(attempts) = 5
    /\ attempts[5].success
    /\ attempts[5].word_count <= 50
    /\ vision_result = attempts[5]

\* C2, state part: the strategies invoked so far are a prefix of the fixed
\* order (so each is invoked at most once and only after its predecessors),
\* every result but the last was not accepted, the chain has a next step
\* while it runs, and when it has returned the result is the accepted last
\* attempt or the all-failed result after five invocations.
C2_OrderInv ==
    /\ Len(invoked) <= 5
    /\ Len(attempts) = Len(invoked)
    /\ invoked = SubSeq(<< "extract_text_from_pdf_async",
                           "extract_text_with_pdfplumber",
                           "extract_text_with_pymupdf",
                           "convert_pdf_to_images_and_extract",
                           "extract_text_from_pdf_directly" >>, 1, Len(invoked))
    /\ \A i \in 1..(Len(attempts) - 1) :
           ~(attempts[i].success /\ attempts[i].word_count > 50)
    /\ pc \in {"method1", "method2", "method3", "method4", "method5"} =>
           /\ ENABLED (Method1 \/ Method2 \/ Method3 \/ Method4 \/ Method5)
           /\ pc = <<"method1", "method2", "method3", "method4", "method5">>[Len(invoked) + 1]
    /\ AfterChain =>
           \/ vision_result.success /\ vision_result = attempts[Len(attempts)]
           \/ ~vision_result.success /\ Len(attempts) = 5
    \* the example: A fails, B succeeds with 30 words, C succeeds with 200
    /\ ( /\ Len(attempts) >= 3
         /\ ~attempts[1].success
         /\ attempts[2].success /\ attempts[2].word_count = 30
         /\ attempts[3].success /\ attempts[3].word_count = 200 ) =>
           /\ invoked = << "extract_text_from_pdf_async",
                           "extract_text_with_pdfplumber",
                           "extract_text_with_pymupdf" >>
           /\ AfterChain
           /\ vision_result = attempts[3]

\* C2: the chain invokes its strategies only in the fixed order, each at most
\* once, none after the chain has returned, and ends accepted or all-failed
\* after at most five invocations.
C2_FixedOrderNoRetry ==
    /\ []C2_OrderInv
    /\ [][AfterChain => (invoked' = invoked /\ attempts' = attempts)]_vars
    /\ [][Len(invoked') <= Len(invoked) + 1]_vars

\* C2 witness: the example run has happened.
C2_Witness ==
    /\ pc = "chain_returned"
    /\ Len(invoked) = 3
    /\ ~attempts[1].success
    /\ attempts[2].success /\ attempts[2].word_count = 30
    /\ vision_result.success /\ vision_result.word_count = 200

\* C3 (as claimed): the all-failed result carries the error of the last
\* attempted strategy and the static suggestions, and the pipeline passes
\* that error on.
C3_AllFailedCarriesLastError ==
    /\ (pc = "chain_returned" /\ ~vision_result.success) =>
           /\ vision_result.error = attempts[Len(attempts)].error
           /\ vision_result.suggestions = Suggestions
    /\ (pc = "returned" /\ Len(attempts) = 5 /\ ~ret.success
           /\ ~vision_result.success) =>
           /\ ret.error = "All PDF extraction methods failed: "
                             \o attempts[Len(attempts)].error
           /\ ret.suggestions = Suggestions

----------------------------------------------------------------------------
(* convert_pdf_to_images_and_extract: page images staged as temporary      *)
(* blobs                                                                   *)

\* The largest number of page images a run of the model converts (the code
\* converts at most the first 10 pages, agent.py:55).
MaxPages == 3

\* What can happen to one page in the loop body of agent.py:69-111.
PageOutcomes ==
    { "save_raised",      \* image.save raises (line 73)
      "upload_failed",    \* upload_temp_image_to_gcs returns None (line 77)
      "ocr_raised",       \* client.annotate_image raises (line 84)
      "ocr_no_text",      \* the response has no full_text_annotation (line 89)
      "ocr_text",         \* the response has text (lines 89-104)
      "confidence_raised" }  \* the text was appended (line 91), then the
                             \* confidence loop of lines 94-104 raises

\* agent.py:150-162 -- what cleanup_temp_gcs_file does when it is called: it
\* issues blob.delete(), or storage.Client() raises before that; the
\* exception is swallowed either way
CleanupOutcomes == {"delete_issued", "client_raised"}

\* agent.py:76-78, 134-148 -- the page's blob exists after the upload call
\* unless the upload failed or was never reached
Uploaded(outcome) ==
    outcome \in {"ocr_raised", "ocr_no_text", "ocr_text", "confidence_raised"}

\* agent.py:106-111 -- cleanup_temp_gcs_file is the last statement of the try
\* block: it is reached when annotate_image returned and the confidence loop
\* ended, and skipped when the handler of line 109 took over
CleanupReached(outcome) == outcome \in {"ocr_no_text", "ocr_text"}

\* agent.py:89-91 -- the page's text is appended to all_text
TextAppended(outcome) == outcome \in {"ocr_text", "confidence_raised"}

\* What happens before the page loop (agent.py:35-64): the import of
\* pdf2image fails, tempfile.TemporaryDirectory() raises, convert_from_path
\* raises, it returns a list of images, and with a non-empty list
\* vision.ImageAnnotatorClient() may raise.
ConvertOutcomes ==
    {[kind |-> "import_failed"]}
    \cup [kind : {"tempdir_raised", "convert_raised"}, e : ExceptionTexts]
    \cup [kind : {"converted"}, images : 0..MaxPages]
    \cup [kind : {"client_raised"}, images : 1..MaxPages, e : ExceptionTexts]

\* agent.py:35-64, 128-132 -- the result returned before the page loop, None
\* when the loop starts
ConvertResult(outcome) ==
    CASE outcome.kind = "import_failed" ->
           [success |-> FALSE,
            error |-> "pdf2image library not installed. Run: pip install pdf2image"]
      [] outcome.kind = "tempdir_raised" ->
           [success |-> FALSE,
            error |-> "PDF image extraction failed: " \o outcome.e]
      [] outcome.kind \in {"convert_raised", "client_raised"} ->
           [success |-> FALSE,
            error |-> "PDF to image conversion failed: " \o outcome.e]
      [] outcome.kind = "converted" /\ outcome.images = 0 ->
           [success |-> FALSE, error |-> "No images generated from PDF"]
      [] OTHER -> None

\* agent.py:35-64, 128-132 -- the import, the temporary directory,
\* convert_from_path and the Vision client: a failure or an empty list returns
\* at once, otherwise the loop starts
ConvertPages ==
    /\ img_pc = "convert"
    /\ \E outcome \in ConvertOutcomes :
         IF ConvertResult(outcome) # None
           THEN /\ img_result' = ConvertResult(outcome)
                /\ img_pc' = "returned"
                /\ images' = images
           ELSE /\ images' = outcome.images
                /\ img_pc' = "loop"
                /\ img_result' = img_result
    /\ UNCHANGED <<page, staged, deleted, all_text, notImg>>

\* agent.py:69-111 -- one iteration of the page loop
ProcessPage ==
    /\ img_pc = "loop"
    /\ page < images
    /\ \E outcome \in PageOutcomes, cleanup \in CleanupOutcomes :
         /\ staged' = IF Uploaded(outcome) THEN staged \cup {page + 1} ELSE staged
         /\ deleted' = IF CleanupReached(outcome) /\ cleanup = "delete_issued"
                         THEN deleted \cup {page + 1}
                         ELSE deleted
         /\ all_text' = IF TextAppended(outcome) THEN Append(all_text, page + 1)
                        ELSE all_text
    /\ page' = page + 1
    /\ UNCHANGED <<img_pc, images, img_result, notImg>>

\* agent.py:113-126 -- the return after the loop
ReturnPages ==
    /\ img_pc = "loop"
    /\ page = images
    /\ img_result' =
         IF all_text = <<>>
           THEN [success |-> FALSE, error |-> "No text extracted from any PDF page"]
           ELSE [success |-> TRUE, pages |-> all_text, method |-> "pdf_to_images_vision"]
    /\ img_pc' = "returned"
    /\ UNCHANGED <<images, page, staged, deleted, all_text, notImg>>

InitImages ==
    /\ ChainIdle
    /\ EngIdle
    /\ img_pc = "convert"
    /\ images = 0
    /\ page = 0
    /\ staged = {}
    /\ deleted = {}
    /\ all_text = <<>>
    /\ img_result = None

NextImages ==
    \/ ConvertPages
    \/ ProcessPage
    \/ ReturnPages

SpecImages == InitImages /\ [][NextImages]_vars

\* C4 (as claimed): when convert_pdf_to_images_and_extract returns, a delete
\* has been issued for every temporary blob this run uploaded, on every exit
\* route of a page (text, no text, exception).
C4_StagedBlobsDeleted ==
    img_pc = "returned" => staged \subseteq deleted

----------------------------------------------------------------------------
(* The metric scorer                                                       *)

(* A number the scorer is called with is the pair of an integer n and a    *)
(* unit u in {1, 10, 100}: the Python int n for u = 1, the double nearest  *)
(* to n / u otherwise (the literal 2.8 is n = 28, u = 10).  The quotient    *)
(* value / median of tools.py:282 is the double nearest to the quotient of  *)
(* the two doubles.  It lies on the same side of a threshold c / 10 as      *)
(* the exact quotient unless the exact quotient is the threshold; then the *)
(* representation errors of the three doubles decide.                      *)

\* 2^k modulo u
RECURSIVE TwoToMod(_, _)
TwoToMod(k, u) == IF k = 0 THEN 1 % u ELSE (2 * TwoToMod(k - 1, u)) % u

\* The binary exponent of n / u for n > 0: the e with 2^e <= n / u < 2^(e+1)
Exponent(n, u) ==
    IF n >= u
      THEN CHOOSE e \in 0..20 : (n \div 2^e) >= u /\ (n \div 2^e) < 2 * u
      ELSE - (CHOOSE k \in 1..20 : n * 2^k >= u /\ n * 2^k < 2 * u)

\* The signed distance, in units of 1 / u, from a point that lies rem / u
\* above a grid point to the grid point nearest to it (the upper one when
\* it is half-way)
Nearest(rem, u) == IF 2 * rem < u THEN - rem ELSE u - rem

\* The representation error of the double nearest to n / u (n > 0), in units
\* of 2^(e-52) / u with e the exponent of n / u: the double is
\* n / u + ReprError(n, u) * 2^(e-52) / u.  (No n / u met here is half-way
\* between two doubles.)
ReprError(n, u) ==
    Nearest(((n % u) * TwoToMod(52 - Exponent(n, u), u)) % u, u)

\* Is the 53-bit significand of the double nearest to n / u odd
OddSignificand(n, u) ==
    LET rem2 == ((n % (2 * u)) * TwoToMod(52 - Exponent(n, u), 2 * u)) % (2 * u)
    IN  ((rem2 + ReprError(n, u)) \div u) % 2 = 1

\* Is n / u a power of two
IsPowerOfTwo(n, u) ==
    \E e \in 0..20 : n = u * 2^e \/ n * 2^e = u

\* The least of three integers
Min3(e, f, g) == IF e <= f /\ e <= g THEN e ELSE IF f <= g THEN f ELSE g

\* TieExcess from the representation errors ra, rm, rc of a / u, m / u and
\* c10 / 10 and their exponents e, f, g
TieExcessAt(ra, e, rm, f, rc, g, m, c10, gap4) ==
    40 * ra * 2^(e - Min3(e, f, g))
      - 4 * c10 * rm * 2^(f - Min3(e, f, g))
      - m * (4 * rc - gap4) * 2^(g - Min3(e, f, g))

\* For a / m = c10 / 10 exactly (a, m > 0): the sign of
\*     fl(a/u) / fl(m/u)  -  (fl(c10/10) - gap4 * 2^(g-54)),
\* g the exponent of c10 / 10, to first order in the representation errors
\* (a positive multiple of the difference, as an integer)
TieExcess(a, m, c10, u, gap4) ==
    TieExcessAt(ReprError(a, u), Exponent(a, u), ReprError(m, u), Exponent(m, u),
                ReprError(c10, 10), Exponent(c10, 10), m, c10, gap4)

\* The absolute value of an integer
Abs(n) == IF n < 0 THEN -n ELSE n

\* The decision at a tie: by the sign of the excess; when the excess is 0
\* to first order, by the second-order term, whose sign is that of the
\* median's representation error; when that is 0 too the quotient is the
\* middle itself and rounds to the even significand.
TieRoundsUp(excess, rm, odd) ==
    IF excess # 0 THEN excess > 0
    ELSE IF rm # 0 THEN rm > 0
    ELSE ~odd

\* Mutant of RatioGE: the comparison is strict.
RatioGE_Strict(value, median, c10, unit) ==
    IF median > 0 THEN 10 * value > c10 * median
                  ELSE 10 * value < c10 * median

\* tools.py:282-293 -- the test  value / median >= c10/10  for a non-zero
\* median (value and median in the same unit).  When the exact quotient is
\* the threshold, the rounded quotient is at least the threshold's double
\* when the quotient of the doubles is above the middle between that double
\* and the one below it, or is that middle and ties-to-even rounds up.
RatioGE(value, median, c10, unit) ==
    IF 10 * value # c10 * median
      THEN IF median > 0 THEN 10 * value > c10 * median
                         ELSE 10 * value < c10 * median
      ELSE TieRoundsUp(TieExcess(Abs(value), Abs(median), c10, unit,
                                 IF IsPowerOfTwo(c10, 10) THEN 10 ELSE 20),
                       ReprError(Abs(median), unit), OddSignificand(c10, 10))

\* tools.py:282, 298-306 -- the test  value / median <= c10/10  for a
\* non-zero median
RatioLE(value, median, c10, unit) ==
    IF 10 * value # c10 * median
      THEN IF median > 0 THEN 10 * value < c10 * median
                         ELSE 10 * value > c10 * median
      ELSE TieRoundsUp(- TieExcess(Abs(value), Abs(median), c10, unit, -20),
                       ReprError(Abs(median), unit), OddSignificand(c10, 10))

\* Mutant of ScoreLadder10: the rungs 7.0 and 6.0 of the higher_better ladder
\* are exchanged.
ScoreLadder10_SwappedRungs(value, median, direction, unit) ==
    IF direction = "higher_better"
      THEN IF RatioGE(value, median, 20, unit) THEN 100
           ELSE IF RatioGE(value, median, 15, unit) THEN 85
           ELSE IF RatioGE(value, median, 12, unit) THEN 60
           ELSE IF RatioGE(value, median, 10, unit) THEN 70
           ELSE IF RatioGE(value, median, 8, unit) THEN 40
           ELSE 20
      ELSE IF RatioLE(value, median, 5, unit) THEN 100
           ELSE IF RatioLE(value, median, 7, unit) THEN 85
           ELSE IF RatioLE(value, median, 9, unit) THEN 70
           ELSE IF RatioLE(value, median, 11, unit) THEN 60
           ELSE IF RatioLE(value, median, 13, unit) THEN 40
           ELSE 20

\* tools.py:282-309 -- the two ladders of _calculate_percentile_score for a
\* non-zero median; the result is the score times 10
ScoreLadder10(value, median, direction, unit) ==
    IF direction = "higher_better"
      THEN IF RatioGE(value, median, 20, unit) THEN 100
           ELSE IF RatioGE(value, median, 15, unit) THEN 85
           ELSE IF RatioGE(value, median, 12, unit) THEN 70
           ELSE IF RatioGE(value, median, 10, unit) THEN 60
           ELSE IF RatioGE(value, median, 8, unit) THEN 40
           ELSE 20
      ELSE IF RatioLE(value, median, 5, unit) THEN 100
           ELSE IF RatioLE(value, median, 7, unit) THEN 85
           ELSE IF RatioLE(value, median, 9, unit) THEN 70
           ELSE IF RatioLE(value, median, 11, unit) THEN 60
           ELSE IF RatioLE(value, median, 13, unit) THEN 40
           ELSE 20

\* Mutant of CalculatePercentileScore10: the zero-median guard returns 0.0.
CalculatePercentileScore10_ZeroForZeroMedian(value, median, direction, unit) ==
    IF median = 0 THEN 0
    ELSE ScoreLadder10(value, median, direction, unit)

\* Mutant of CalculatePercentileScore10: a value of 0 is taken for missing
\* data and scored 5.0.
CalculatePercentileScore10_ZeroValueNeutral(value, median, direction, unit) ==
    IF median = 0 \/ value = 0 THEN 50
    ELSE ScoreLadder10(value, median, direction, unit)

\* tools.py:277-309 -- _calculate_percentile_score; the result is the score
\* times 10
CalculatePercentileScore10(value, median, direction, unit) ==
    IF median = 0 THEN 50
    ELSE ScoreLadder10(value, median, direction, unit)

\* tools.py:311-335 -- _generate_assessment
GenerateAssessment(value, median, direction, unit) ==
    IF median = 0 THEN "Insufficient data for comparison"
    ELSE IF direction = "higher_better"
      THEN IF RatioGE(value, median, 20, unit)
             THEN "Exceptional - significantly outperforming sector"
           ELSE IF RatioGE(value, median, 12, unit) THEN "Strong - above sector median"
           ELSE IF RatioGE(value, median, 8, unit) THEN "Average - near sector median"
           ELSE "Below Average - underperforming sector"
      ELSE IF RatioLE(value, median, 7, unit)
             THEN "Exceptional - significantly more efficient than sector"
           ELSE IF RatioLE(value, median, 11, unit) THEN "Strong - better than sector median"
           ELSE IF RatioLE(value, median, 13, unit) THEN "Average - near sector median"
           ELSE "Below Average - less efficient than sector"

\* tools.py:337-350 -- _calculate_tam_score; tam in units of $100M
CalculateTamScore10(tam) ==
    IF tam >= 500 THEN 100
    ELSE IF tam >= 100 THEN 85
    ELSE IF tam >= 50 THEN 70
    ELSE IF tam >= 10 THEN 60
    ELSE IF tam >= 5 THEN 40
    ELSE 20

\* tools.py:352-361 -- _generate_tam_assessment; tam in units of $100M
GenerateTamAssessment(tam) ==
    IF tam >= 500 THEN "Exceptional - massive addressable market"
    ELSE IF tam >= 100 THEN "Strong - large addressable market"
    ELSE IF tam >= 10 THEN "Good - significant market opportunity"
    ELSE "Limited - smaller market opportunity"

\* tools.py:363-372 -- _generate_tech_assessment; the score times 10
GenerateTechAssessment(score10) ==
    IF score10 >= 80 THEN "Strong - clear competitive moats"
    ELSE IF score10 >= 60 THEN "Good - some differentiation"
    ELSE IF score10 >= 40 THEN "Average - limited differentiation"
    ELSE "Weak - commoditized offering"

\* tools.py:374-383 -- _generate_team_assessment
GenerateTeamAssessment(score10) ==
    IF score10 >= 80 THEN "Exceptional - proven leadership team"
    ELSE IF score10 >= 60 THEN "Strong - experienced team"
    ELSE IF score10 >= 40 THEN "Average - mixed experience"
    ELSE "Weak - limited relevant experience"

\* tools.py:385-394 -- _generate_funding_assessment
GenerateFundingAssessment(score10) ==
    IF score10 >= 80 THEN "Excellent - highly efficient capital usage"
    ELSE IF score10 >= 60 THEN "Good - reasonable funding efficiency"
    ELSE IF score10 >= 40 THEN "Average - typical capital requirements"
    ELSE "Poor - inefficient capital usage"

----------------------------------------------------------------------------
(* The benchmark engine                                                    *)

\* tools.py:249-274 -- the sector_medians table; burn_multiple is kept
\* times 10 (2.8 is 28)
KnownSectors == {S_saas, S_ecommerce, S_fintech, S_marketplace}

SectorMedians(sector) ==
    CASE sector = S_saas ->
           [revenue_growth |-> 65, burn_multiple |-> 28,
            cac_payback |-> 18, customer_count |-> 800]
      [] sector = S_ecommerce ->
           [revenue_growth |-> 85, burn_multiple |-> 42,
            cac_payback |-> 12, customer_count |-> 2000]
      [] sector = S_fintech ->
           [revenue_growth |-> 75, burn_multiple |-> 32,
            cac_payback |-> 15, customer_count |-> 1200]
      [] sector = S_marketplace ->
           [revenue_growth |-> 90, burn_multiple |-> 38,
            cac_payback |-> 14, customer_count |-> 5000]

\* Mutant of GetSectorMedian: a sector that is not in the table has the
\* median 0.
GetSectorMedian_ZeroForUnknown(sector, metric, default) ==
    IF sector \in KnownSectors /\ metric \in DOMAIN SectorMedians(sector)
      THEN SectorMedians(sector)[metric]
      ELSE 0

\* tools.py:247-275 -- _get_sector_median
GetSectorMedian(sector, metric, default) ==
    IF sector \in KnownSectors /\ metric \in DOMAIN SectorMedians(sector)
      THEN SectorMedians(sector)[metric]
      ELSE default

\* tools.py:41-49 -- a BenchmarkMetric; score10 is the score times 10.  The
\* display strings startup_value, sector_median and sector_top_quartile are
\* not modelled.
BenchmarkMetric(name, score10, assessment, category) ==
    [name |-> name, score10 |-> score10, assessment |-> assessment,
     category |-> category]

\* tools.py:130-245 -- _generate_dynamic_benchmarks.  Units of company_data:
\* revenue_growth_yoy in percent, burn_multiple times 10, customer_count in
\* customers, total_addressable_market in $100M, the three *_score fields
\* times 10.
GenerateDynamicBenchmarks(company_data) ==
    LET sector == Lower(Get(company_data.sector, S_SaaS))
        revenue_growth == Get(company_data.revenue_growth_yoy, 0)
        sector_median_growth == GetSectorMedian(sector, "revenue_growth", 45)
        burn_multiple == Get(company_data.burn_multiple, 0)
        sector_burn_median == GetSectorMedian(sector, "burn_multiple", 35)
        tam == Get(company_data.total_addressable_market, 0)
        tech_differentiation == Get(company_data.technology_differentiation_score, 50)
        team_experience == Get(company_data.team_experience_score, 50)
        customer_count == Get(company_data.customer_count, 0)
        sector_customer_median == GetSectorMedian(sector, "customer_count", 500)
        funding_efficiency == Get(company_data.funding_efficiency_score, 50)
    IN  [financial_benchmarks |->
           << BenchmarkMetric("revenue_growth_yoy",
                  CalculatePercentileScore10(revenue_growth, sector_median_growth,
                                             "higher_better", 1),
                  GenerateAssessment(revenue_growth, sector_median_growth,
                                     "higher_better", 1),
                  "Financial"),
              BenchmarkMetric("burn_multiple",
                  CalculatePercentileScore10(burn_multiple, sector_burn_median,
                                             "lower_better", 10),
                  GenerateAssessment(burn_multiple, sector_burn_median,
                                     "lower_better", 10),
                  "Financial") >>,
         traction_benchmarks |->
           << BenchmarkMetric("customer_count",
                  CalculatePercentileScore10(customer_count, sector_customer_median,
                                             "higher_better", 1),
                  GenerateAssessment(customer_count, sector_customer_median,
                                     "higher_better", 1),
                  "Traction") >>,
         market_benchmarks |->
           << BenchmarkMetric("total_addressable_market",
                  CalculateTamScore10(tam), GenerateTamAssessment(tam), "Market") >>,
         technology_benchmarks |->
           << BenchmarkMetric("technology_differentiation",
                  tech_differentiation,
                  GenerateTechAssessment(tech_differentiation), "Technology") >>,
         team_benchmarks |->
           << BenchmarkMetric("team_experience",
                  team_experience,
                  GenerateTeamAssessment(team_experience), "Team") >>,
         funding_benchmarks |->
           << BenchmarkMetric("funding_efficiency",
                  funding_efficiency,
                  GenerateFundingAssessment(funding_efficiency), "Funding") >>]

\* tools.py:420-427 -- base_weights, times 100, in the order of the dict
WeightCategories ==
    << "financial_benchmarks", "market_benchmarks", "technology_benchmarks",
       "team_benchmarks", "traction_benchmarks", "funding_benchmarks" >>

BaseWeights100 ==
    [financial_benchmarks |-> 25, market_benchmarks |-> 20,
     technology_benchmarks |-> 20, team_benchmarks |-> 15,
     traction_benchmarks |-> 15, funding_benchmarks |-> 5]

\* the statements  base_weights[k] += d[k]  for the keys of d
Adjust(weights, d) ==
    [k \in DOMAIN weights |-> IF k \in DOMAIN d THEN weights[k] + d[k] ELSE weights[k]]

\* Mutant of StageAdjustment: the late rule does not raise funding.
StageAdjustment_Unbalanced(stage) ==
    IF Contains(S_seed, stage) \/ Contains(S_pre_series_a, stage)
      THEN [team_benchmarks |-> 10, financial_benchmarks |-> -5,
            traction_benchmarks |-> -5]
    ELSE IF Contains(S_series_b, stage) \/ Contains(S_growth, stage)
      THEN [financial_benchmarks |-> 10, team_benchmarks |-> -5,
            market_benchmarks |-> -5]
    ELSE IF Contains(S_pre_ipo, stage) \/ Contains(S_late, stage)
      THEN [financial_benchmarks |-> 15,
            technology_benchmarks |-> -10, team_benchmarks |-> -10]
    ELSE << >>

\* Mutant of StageAdjustment: the rules are tried in the order late, growth,
\* early.
StageAdjustment_LateFirst(stage) ==
    IF Contains(S_pre_ipo, stage) \/ Contains(S_late, stage)
      THEN [financial_benchmarks |-> 15, funding_benchmarks |-> 5,
            technology_benchmarks |-> -10, team_benchmarks |-> -10]
    ELSE IF Contains(S_series_b, stage) \/ Contains(S_growth, stage)
      THEN [financial_benchmarks |-> 10, team_benchmarks |-> -5,
            market_benchmarks |-> -5]
    ELSE IF Contains(S_seed, stage) \/ Contains(S_pre_series_a, stage)
      THEN [team_benchmarks |-> 10, financial_benchmarks |-> -5,
            traction_benchmarks |-> -5]
    ELSE << >>

\* tools.py:429-442 -- the stage adjustments
StageAdjustment(stage) ==
    IF Contains(S_seed, stage) \/ Contains(S_pre_series_a, stage)
      THEN [team_benchmarks |-> 10, financial_benchmarks |-> -5,
            traction_benchmarks |-> -5]
    ELSE IF Contains(S_series_b, stage) \/ Contains(S_growth, stage)
      THEN [financial_benchmarks |-> 10, team_benchmarks |-> -5,
            market_benchmarks |-> -5]
    ELSE IF Contains(S_pre_ipo, stage) \/ Contains(S_late, stage)
      THEN [financial_benchmarks |-> 15, funding_benchmarks |-> 5,
            technology_benchmarks |-> -10, team_benchmarks |-> -10]
    ELSE << >>

\* Mutant of SectorAdjustment: every sector but fintech gets the
\* healthcare / biotech adjustment.
SectorAdjustment_ElseHealthcare(sector) ==
    IF sector = S_fintech
      THEN [financial_benchmarks |-> 10, technology_benchmarks |-> 5,
            market_benchmarks |-> -10, team_benchmarks |-> -5]
    ELSE [technology_benchmarks |-> 10, team_benchmarks |-> 10,
          traction_benchmarks |-> -10, financial_benchmarks |-> -10]

\* tools.py:444-454 -- the sector adjustments
SectorAdjustment(sector) ==
    IF sector = S_fintech
      THEN [financial_benchmarks |-> 10, technology_benchmarks |-> 5,
            market_benchmarks |-> -10, team_benchmarks |-> -5]
    ELSE IF sector = S_healthcare \/ sector = S_biotech
      THEN [technology_benchmarks |-> 10, team_benchmarks |-> 10,
            traction_benchmarks |-> -10, financial_benchmarks |-> -10]
    ELSE << >>

\* tools.py:418-456 -- _get_dynamic_weights, the weights times 100
GetDynamicWeights100(stage, sector) ==
    Adjust(Adjust(BaseWeights100, StageAdjustment(stage)), SectorAdjustment(sector))

\* sum(metric.score for metric in metrics), times 10
RECURSIVE SumScores10(_)
SumScores10(metrics) ==
    IF metrics = << >> THEN 0
    ELSE metrics[1].score10 + SumScores10(Tail(metrics))

\* A common multiple of the lengths of the non-empty metric lists of the
\* listed categories: the category means times it are integers.
RECURSIVE LengthProduct(_, _)
LengthProduct(benchmark_metrics, categories) ==
    IF categories = << >> THEN 1
    ELSE LET c == categories[1]
             n == IF c \in DOMAIN benchmark_metrics THEN Len(benchmark_metrics[c]) ELSE 0
         IN  (IF n = 0 THEN 1 ELSE n)
               * LengthProduct(benchmark_metrics, Tail(categories))

\* Mutant of CategoryScore: a category without metrics is skipped
\* (contributes nothing).
CategoryScore_SkipEmpty(benchmark_metrics, category, scale) ==
    IF category \in DOMAIN benchmark_metrics /\ benchmark_metrics[category] # << >>
      THEN (SumScores10(benchmark_metrics[category]) * scale)
              \div Len(benchmark_metrics[category])
      ELSE 0

\* tools.py:405-413 -- category_scores.get(category, 5.0), times 10 * scale:
\* the mean of the category's scores, or 5.0 for a category without metrics
CategoryScore(benchmark_metrics, category, scale) ==
    IF category \in DOMAIN benchmark_metrics /\ benchmark_metrics[category] # << >>
      THEN (SumScores10(benchmark_metrics[category]) * scale)
              \div Len(benchmark_metrics[category])
      ELSE 50 * scale

\* tools.py:411-414 -- the weighted sum, times 10 * 100 * scale
RECURSIVE WeightedSum(_, _, _, _)
WeightedSum(benchmark_metrics, weights, categories, scale) ==
    IF categories = << >> THEN 0
    ELSE CategoryScore(benchmark_metrics, categories[1], scale) * weights[categories[1]]
           + WeightedSum(benchmark_metrics, weights, Tail(categories), scale)

\* round(x, 1) for x = num / den (den > 0), times 10.  Python rounds the
\* float that the sum produced: away from an exact tie the result is the
\* nearest tenth; at an exact tie the float lies on either side and the
\* result is either neighbour (tie_up chooses).
Round1(num, den, tie_up) ==
    LET q == (10 * num) \div den
        r == (10 * num) - q * den
    IN  IF 2 * r > den THEN q + 1
        ELSE IF 2 * r < den THEN q
        ELSE IF tie_up THEN q + 1 ELSE q

\* tools.py:396-416 -- _calculate_overall_score, the result times 10
CalculateOverallScore10(benchmark_metrics, company_data, tie_up) ==
    LET stage == Lower(Get(company_data.stage, S_series_b))
        sector == Lower(Get(company_data.sector, S_saas))
        weights == GetDynamicWeights100(stage, sector)
        scale == LengthProduct(benchmark_metrics, WeightCategories)
    IN  Round1(WeightedSum(benchmark_metrics, weights, WeightCategories, scale),
               10 * 100 * scale, tie_up)

\* Mutant of DetermineInvestmentRecommendation: the BUY band starts above
\* 7.5 instead of at 7.5.
DetermineInvestmentRecommendation_StrictBuy(overall_score10) ==
    IF overall_score10 >= 90 THEN "STRONG BUY"
    ELSE IF overall_score10 > 75 THEN "BUY"
    ELSE IF overall_score10 >= 60 THEN "HOLD"
    ELSE IF overall_score10 >= 40 THEN "WEAK BUY"
    ELSE "AVOID"

\* tools.py:458-469 -- _determine_investment_recommendation
DetermineInvestmentRecommendation(overall_score10) ==
    IF overall_score10 >= 90 THEN "STRONG BUY"
    ELSE IF overall_score10 >= 75 THEN "BUY"
    ELSE IF overall_score10 >= 60 THEN "HOLD"
    ELSE IF overall_score10 >= 40 THEN "WEAK BUY"
    ELSE "AVOID"

\* tools.py:528-535 -- _assess_return_potential
AssessReturnPotential(overall_score10) ==
    IF overall_score10 >= 85 THEN "High"
    ELSE IF overall_score10 >= 65 THEN "Medium"
    ELSE "Low"

----------------------------------------------------------------------------
(* The pros and cons lists                                                 *)

\* tools.py:132-139 -- the keys of the benchmarks dict in insertion order,
\* the order in which benchmark_metrics.values() yields the metric lists
BenchmarkCategories ==
    << "financial_benchmarks", "traction_benchmarks", "market_benchmarks",
       "technology_benchmarks", "team_benchmarks", "funding_benchmarks" >>

\* tools.py:477-479, 499-501 -- all_metrics: the lists that
\* benchmark_metrics.values() yields, concatenated.  A Python dict is the
\* mapping benchmark_metrics together with keys, its keys in insertion
\* order, whatever they are named.
RECURSIVE AllMetrics(_, _)
AllMetrics(benchmark_metrics, keys) ==
    IF keys = << >> THEN << >>
    ELSE benchmark_metrics[keys[1]] \o AllMetrics(benchmark_metrics, Tail(keys))

\* sorted(all_metrics, key=lambda x: x.score, reverse=descending): Python's
\* sort is stable, with reverse=True too, so metrics of equal score keep
\* their order in all_metrics
SortedByScore(all_metrics, descending) ==
    LET n == Len(all_metrics)
        Before(i, j) ==
            \/ (IF descending
                   THEN all_metrics[i].score10 > all_metrics[j].score10
                   ELSE all_metrics[i].score10 < all_metrics[j].score10)
            \/ all_metrics[i].score10 = all_metrics[j].score10 /\ i < j
        Position(i) == Cardinality({j \in 1..n : Before(j, i)}) + 1
    IN  [p \in 1..n |-> all_metrics[CHOOSE i \in 1..n : Position(i) = p]]

\* seq[:n]
Take(seq, n) == SubSeq(seq, 1, IF Len(seq) < n THEN Len(seq) ELSE n)

\* tools.py:485, 507 -- the entry of a metric: its name, made a title, and
\* its assessment (the markup of the string is not modelled)
MetricEntry(metric) == [title |-> metric.name, text |-> metric.assessment]

\* Mutant of IsStrong: a strong metric scores above 7.0.
IsStrong_Above(metric) == metric.score10 > 70

\* tools.py:484 -- metric.score >= 7.0
IsStrong(metric) == metric.score10 >= 70

\* Mutant of IsWeak: a weak metric scores below 5.0.
IsWeak_Below(metric) == metric.score10 < 50

\* tools.py:506 -- metric.score <= 5.0
IsWeak(metric) == metric.score10 <= 50

\* tools.py:483-485 -- the entries of the metrics with score >= 7.0
RECURSIVE StrongEntries(_)
StrongEntries(metrics) ==
    IF metrics = << >> THEN << >>
    ELSE (IF IsStrong(metrics[1]) THEN << MetricEntry(metrics[1]) >> ELSE << >>)
           \o StrongEntries(Tail(metrics))

\* tools.py:505-507 -- the entries of the metrics with score <= 5.0
RECURSIVE WeakEntries(_)
WeakEntries(metrics) ==
    IF metrics = << >> THEN << >>
    ELSE (IF IsWeak(metrics[1]) THEN << MetricEntry(metrics[1]) >> ELSE << >>)
           \o WeakEntries(Tail(metrics))

\* tools.py:471-491 -- _generate_investment_pros
GenerateInvestmentPros(benchmark_metrics, keys, company_data) ==
    LET all_metrics == AllMetrics(benchmark_metrics, keys)
        top_metrics == Take(SortedByScore(all_metrics, TRUE), 6)
        pros == StrongEntries(top_metrics)
        revenue_growth_yoy == Get(company_data.revenue_growth_yoy, 0)
        company_pros ==
            IF revenue_growth_yoy > 100
              THEN << [title |-> "Strong Revenue Growth",
                       text |-> revenue_growth_yoy] >>
              ELSE << >>
    IN  Take(pros \o company_pros, 6)

\* tools.py:510-513 -- the two standard cons
StandardCons ==
    << [title |-> "Market Competition",
        text |-> "Intense competitive landscape"],
       [title |-> "Execution Risk",
        text |-> "Achieving growth targets depends on execution"] >>

\* tools.py:493-515 -- _generate_investment_cons
GenerateInvestmentCons(benchmark_metrics, keys, company_data) ==
    LET all_metrics == AllMetrics(benchmark_metrics, keys)
        bottom_metrics == Take(SortedByScore(all_metrics, FALSE), 6)
        cons == WeakEntries(bottom_metrics)
    IN  Take(cons \o StandardCons, 6)

----------------------------------------------------------------------------
(* The confidence score                                                    *)

\* The kinds of Python values a company_data field can hold.
ValueKinds ==
    { "None", "empty_str", "str", "zero_int", "zero_float", "int", "float",
      "False", "True", "empty_list", "list", "empty_dict", "dict" }

\* tools.py:588 -- value in [None, "", 0, []]: membership compares with ==,
\* so 0.0 and False are equal to the 0 of the list, and an empty dict is
\* equal to none of the four
InEmptyValues(kind) ==
    kind \in { "None", "empty_str", "zero_int", "zero_float", "False",
               "empty_list" }

\* round(num / den, 2) times 100, for 0 <= num <= den and den > 0.  round
\* works on the double nearest to num / den and gives the hundredth nearest
\* to that double.  When num / den ends in exactly half a hundredth (den is
\* then a multiple of 8), the double lies above or below it as its
\* representation error tells (1 / 40: above, 0.03; 3 / 40: below, 0.07), or
\* is that number itself (1 / 8), and Python rounds it to the even
\* hundredth.
Round2(num, den) ==
    LET q == (100 * num) \div den
        r == (100 * num) - q * den
    IN  IF 2 * r > den THEN q + 1
        ELSE IF 2 * r < den THEN q
        ELSE IF ReprError(num, den) > 0 THEN q + 1
        ELSE IF ReprError(num, den) < 0 THEN q
        ELSE IF q % 2 = 0 THEN q ELSE q + 1

\* tools.py:584-590 and risk_detection_agent/tools.py:302-306 --
\* _calculate_confidence_score, the result times 100.  company_data is the
\* sequence of the kinds of its values; the second argument is not read.
CalculateConfidenceScore100(company_data) ==
    LET total_fields == Len(company_data)
        filled_fields ==
            Cardinality({ i \in 1..total_fields : ~InEmptyValues(company_data[i]) })
    IN  IF total_fields > 0 THEN Round2(filled_fields, total_fields) ELSE 0

----------------------------------------------------------------------------
(* The risk engine (risk_detection_agent/tools.py)                         *)

\* tools.py:39-48 -- a RiskFactor (the description is not modelled)
RiskFactor(name, impact, probability, risk_score, mitigation, category) ==
    [name |-> name, impact |-> impact, probability |-> probability,
     risk_score |-> risk_score, mitigation |-> mitigation,
     category |-> category]

\* Mutant of CalculateRiskScore: Medium impact with High probability is
\* scored Medium.
CalculateRiskScore_MediumHighIsMedium(impact, probability) ==
    CASE impact = "High" /\ probability = "High" -> "High"
      [] impact = "High" /\ probability = "Medium" -> "High"
      [] impact = "High" /\ probability = "Low" -> "Medium"
      [] impact = "Medium" /\ probability = "High" -> "Medium"
      [] impact = "Medium" /\ probability = "Medium" -> "Medium"
      [] impact = "Medium" /\ probability = "Low" -> "Low"
      [] impact = "Low" /\ probability = "High" -> "Medium"
      [] impact = "Low" /\ probability = "Medium" -> "Low"
      [] impact = "Low" /\ probability = "Low" -> "Low"
      [] OTHER -> "Medium"

\* tools.py:209-222 -- _calculate_risk_score: the risk matrix
CalculateRiskScore(impact, probability) ==
    CASE impact = "High" /\ probability = "High" -> "High"
      [] impact = "High" /\ probability = "Medium" -> "High"
      [] impact = "High" /\ probability = "Low" -> "Medium"
      [] impact = "Medium" /\ probability = "High" -> "High"
      [] impact = "Medium" /\ probability = "Medium" -> "Medium"
      [] impact = "Medium" /\ probability = "Low" -> "Low"
      [] impact = "Low" /\ probability = "High" -> "Medium"
      [] impact = "Low" /\ probability = "Medium" -> "Low"
      [] impact = "Low" /\ probability = "Low" -> "Low"
      [] OTHER -> "Medium"

\* tools.py:119-207 -- _generate_dynamic_risk_factors.  Units of
\* company_data: market_cap in $100M, the counts, percents, months and
\* scores as integers, the flags as booleans.
GenerateDynamicRiskFactors(company_data) ==
    LET market_cap == Get(company_data.market_cap, 0)
        competitor_count == Get(company_data.competitor_count, 0)
        industry == Lower(Get(company_data.industry, << >>))
        tech_investment == Get(company_data.rd_investment_percent, 0)
        regulatory_risk == Get(company_data.regulatory_risk_score, 5)
        cash_runway == Get(company_data.cash_runway_months, 0)
        cybersecurity_score == Get(company_data.cybersecurity_score, 5)
        unique_value_prop == Get(company_data.unique_value_prop, FALSE)
        compliance_team == Get(company_data.compliance_team, FALSE)
        fundraising_plan == Get(company_data.fundraising_plan, FALSE)
        sensitive_data == Get(company_data.sensitive_data, FALSE)
    IN  << RiskFactor("Market_Competition",
             IF competitor_count > 10 THEN "High"
               ELSE IF competitor_count > 5 THEN "Medium" ELSE "Low",
             IF market_cap < 10 THEN "High" ELSE "Medium",
             CalculateRiskScore(
               IF competitor_count > 10 THEN "High" ELSE "Medium", "High"),
             IF unique_value_prop THEN "Partial" ELSE "None",
             "Strategic"),
           RiskFactor("Technology_Disruption",
             IF industry \in {S_fintech, S_healthcare, S_retail}
               THEN "High" ELSE "Medium",
             IF tech_investment < 5 THEN "High"
               ELSE IF tech_investment < 15 THEN "Medium" ELSE "Low",
             CalculateRiskScore(
               IF industry \in {S_fintech, S_healthcare} THEN "High" ELSE "Medium",
               IF tech_investment < 5 THEN "High" ELSE "Medium"),
             IF tech_investment > 15 THEN "Strong"
               ELSE IF tech_investment > 5 THEN "Partial" ELSE "None",
             "Technology"),
           RiskFactor("Regulatory_Changes",
             IF regulatory_risk > 7 THEN "High"
               ELSE IF regulatory_risk > 4 THEN "Medium" ELSE "Low",
             IF industry \in {S_fintech, S_healthcare} THEN "High" ELSE "Medium",
             CalculateRiskScore(
               IF regulatory_risk > 7 THEN "High" ELSE "Medium",
               IF industry \in {S_fintech, S_healthcare} THEN "High" ELSE "Medium"),
             IF compliance_team THEN "Strong" ELSE "None",
             "Legal"),
           RiskFactor("Financial_Liquidity",
             IF cash_runway < 6 THEN "High"
               ELSE IF cash_runway < 12 THEN "Medium" ELSE "Low",
             IF cash_runway < 12 THEN "High" ELSE "Low",
             CalculateRiskScore(
               IF cash_runway < 6 THEN "High" ELSE "Medium",
               IF cash_runway < 12 THEN "High" ELSE "Low"),
             IF fundraising_plan THEN "Partial" ELSE "None",
             "Financial"),
           RiskFactor("Cybersecurity_Threats",
             IF sensitive_data THEN "High" ELSE "Medium",
             IF cybersecurity_score < 5 THEN "High"
               ELSE IF cybersecurity_score < 8 THEN "Medium" ELSE "Low",
             CalculateRiskScore(
               IF sensitive_data THEN "High" ELSE "Medium",
               IF cybersecurity_score < 5 THEN "High" ELSE "Medium"),
             IF cybersecurity_score > 8 THEN "Strong" ELSE "Partial",
             "Operational") >>

\* The number of risk factors with risk_score "High"
HighCount(risk_factors) ==
    Cardinality({ i \in 1..Len(risk_factors) : risk_factors[i].risk_score = "High" })

\* Mutant of CalculateOverallRiskScore: the High band starts above 0.4.
CalculateOverallRiskScore_StrictHigh(risk_factors) ==
    LET high_count == HighCount(risk_factors)
        total_count == Len(risk_factors)
    IN  IF total_count = 0 THEN "Medium"
        ELSE IF 5 * high_count > 2 * total_count THEN "High"
        ELSE IF 5 * high_count >= total_count THEN "Medium"
        ELSE "Low"

\* tools.py:237-250 -- _calculate_overall_risk_score.  high_count /
\* total_count >= 0.4 is 5 * high_count >= 2 * total_count: the division is
\* correctly rounded, so a quotient equal to 2/5 or 1/5 is the double of the
\* literal.
CalculateOverallRiskScore(risk_factors) ==
    LET high_count == HighCount(risk_factors)
        total_count == Len(risk_factors)
    IN  IF total_count = 0 THEN "Medium"
        ELSE IF 5 * high_count >= 2 * total_count THEN "High"
        ELSE IF 5 * high_count >= total_count THEN "Medium"
        ELSE "Low"

\* tools.py:252-254 -- _identify_high_priority_risks
RECURSIVE IdentifyHighPriorityRisks(_)
IdentifyHighPriorityRisks(risk_factors) ==
    IF risk_factors = << >> THEN << >>
    ELSE (IF risk_factors[1].risk_score = "High"
            THEN << risk_factors[1].name >> ELSE << >>)
           \o IdentifyHighPriorityRisks(Tail(risk_factors))

\* tools.py:277-300 -- _generate_mitigation_strategies: one strategy per
\* high risk, for the first five of them (the strategy text is not
\* modelled)
GenerateMitigationStrategies(risk_factors) ==
    LET high_risks == Take(IdentifyHighPriorityRisks(risk_factors), 5)
    IN  [i \in 1..Len(high_risks) |->
            [risk_name |-> high_risks[i], priority |-> "High",
             timeline |-> "3-6 months"]]

----------------------------------------------------------------------------
(* The analysis results and the warehouse write                            *)

\* tools.py:517-526 -- _determine_investment_horizon
DetermineInvestmentHorizon(company_data) ==
    LET stage == Lower(Get(company_data.stage, S_series_b))
    IN  IF Contains(S_pre_ipo, stage) THEN "12-18M"
        ELSE IF Contains(S_series_c, stage) \/ Contains(S_late, stage) THEN "18-24M"
        ELSE "24-36M"

\* The kind of the value of an optional field, as a list of no or one kind:
\* of a string field, a number field and a flag field
KindOfString(field) ==
    IF field = << >> THEN << >>
    ELSE IF field[1] = << >> THEN << "empty_str" >> ELSE << "str" >>

KindOfNumber(field) ==
    IF field = << >> THEN << >>
    ELSE IF field[1] = 0 THEN << "zero_int" >> ELSE << "int" >>

KindOfFlag(field) ==
    IF field = << >> THEN << >>
    ELSE IF field[1] THEN << "True" >> ELSE << "False" >>

\* company_data.values() of a benchmark call, as kinds: of the nine keys
\* _generate_dynamic_benchmarks reads, of company_id (tools.py:91) and of
\* every other key of the dict (company_name, ...)
BenchmarkFieldKinds(company_data) ==
    KindOfString(company_data.sector) \o KindOfString(company_data.stage)
      \o KindOfNumber(company_data.revenue_growth_yoy)
      \o KindOfNumber(company_data.burn_multiple)
      \o KindOfNumber(company_data.total_addressable_market)
      \o KindOfNumber(company_data.technology_differentiation_score)
      \o KindOfNumber(company_data.team_experience_score)
      \o KindOfNumber(company_data.customer_count)
      \o KindOfNumber(company_data.funding_efficiency_score)
      \o KindOfString(company_data.company_id)
      \o company_data.other_values

\* company_data.values() of a risk call, as kinds: of the eleven keys
\* _generate_dynamic_risk_factors reads and of every other key of the dict
RiskFieldKinds(company_data) ==
    KindOfNumber(company_data.market_cap)
      \o KindOfNumber(company_data.competitor_count)
      \o KindOfFlag(company_data.unique_value_prop)
      \o KindOfString(company_data.industry)
      \o KindOfNumber(company_data.rd_investment_percent)
      \o KindOfNumber(company_data.regulatory_risk_score)
      \o KindOfFlag(company_data.compliance_team)
      \o KindOfNumber(company_data.cash_runway_months)
      \o KindOfFlag(company_data.fundraising_plan)
      \o KindOfNumber(company_data.cybersecurity_score)
      \o KindOfFlag(company_data.sensitive_data)
      \o company_data.other_values

\* tools.py:90-106 -- the analysis_result of analyze_startup_benchmarks
\* before the write.  Not modelled: the identifiers and the date (fresh for
\* every run) and the fields copied from company_data (company_name,
\* competitive_positioning, financial_multiples, investment_thesis).
BenchmarkAnalysis(company_data, tie_up) ==
    LET benchmark_metrics == GenerateDynamicBenchmarks(company_data)
        overall_score == CalculateOverallScore10(benchmark_metrics,
                                                 company_data, tie_up)
    IN  [benchmark_metrics |-> benchmark_metrics,
         investment_recommendation |-> DetermineInvestmentRecommendation(overall_score),
         overall_score10 |-> overall_score,
         investment_pros |-> GenerateInvestmentPros(benchmark_metrics, BenchmarkCategories,
                                                     company_data),
         investment_cons |-> GenerateInvestmentCons(benchmark_metrics, BenchmarkCategories,
                                                     company_data),
         investment_horizon |-> DetermineInvestmentHorizon(company_data),
         return_potential |-> AssessReturnPotential(overall_score),
         confidence_score100 |->
             CalculateConfidenceScore100(BenchmarkFieldKinds(company_data))]

\* risk_detection_agent/tools.py:84-95 -- the analysis_result of
\* analyze_company_risks before the write.  Not modelled: the identifiers,
\* the date and financial_metrics (copied from company_data).
RiskAnalysis(company_data) ==
    LET risk_factors == GenerateDynamicRiskFactors(company_data)
    IN  [risk_factors |-> risk_factors,
         overall_risk_score |-> CalculateOverallRiskScore(risk_factors),
         high_priority_risks |-> IdentifyHighPriorityRisks(risk_factors),
         mitigation_recommendations |-> GenerateMitigationStrategies(risk_factors),
         confidence_score100 |->
             CalculateConfidenceScore100(RiskFieldKinds(company_data))]

\* What the warehouse does with the insert: it stores the row, it reports
\* row errors, or the client raises.
WriteOutcomes == {"inserted", "row_errors", "raised"}

\* Mutant of SaveToBigQuery: reported row errors are not looked at.
SaveToBigQuery_IgnoreRowErrors(outcome) == outcome # "raised"

\* tools.py:592-638 and risk_detection_agent/tools.py:308-343 --
\* _save_to_bigquery: False when insert_rows_json returns errors and when
\* anything raises, True otherwise
SaveToBigQuery(outcome) == outcome = "inserted"

\* analysis_result["bigquery_saved"] = success
WithSaved(analysis_result, success) ==
    [k \in DOMAIN analysis_result \cup {"bigquery_saved"} |->
        IF k = "bigquery_saved" THEN success ELSE analysis_result[k]]

----------------------------------------------------------------------------
(* The weights as the doubles _get_dynamic_weights computes                 *)
(*                                                                         *)
(* A double x near a whole number of hundredths is the pair [c, d] with    *)
(*     x = (c * 2^57 + d) / (100 * 2^57):                                  *)
(* c is the decimal value in hundredths and d the representation error in  *)
(* units of 2^-57 / 100.  Every double of magnitude below 1 and at least    *)
(* 2^-5 is a multiple of 2^-57, so c * 2^57 + d is a multiple of 100.      *)

\* 2^57 modulo m, computed as (2^19)^3 within 32-bit integers (m < 2^15)
TwoTo57Mod(m) ==
    LET a == (2^19) % m
    IN  (((a * a) % m) * a) % m

\* The spacing of the doubles around the value [c, d], in units of 2^-57:
\* 32 in [1, 2), 16 in [1/2, 1), 8 in [1/4, 1/2), 4 in [1/8, 1/4), 2 in
\* [1/16, 1/8) and 1 below 1/16 (where every multiple of 2^-57 met here is
\* a double).
Ulp(c, d) ==
    LET a == Abs(c)
        e == IF c < 0 THEN -d ELSE d
    IN  IF a > 100 \/ (a = 100 /\ e >= 0) THEN 32
        ELSE IF a > 50 \/ (a = 50 /\ e >= 0) THEN 16
        ELSE IF a > 25 \/ (a = 25 /\ e >= 0) THEN 8
        ELSE IF a >= 13 THEN 4
        ELSE IF a >= 7 THEN 2
        ELSE 1

\* IEEE 754 round-to-nearest, ties to even, of the exact value
\* (c * 2^57 + d) / (100 * 2^57) to a double
FlRound(c, d) ==
    LET step == 100 * Ulp(c, d)
        t2 == (c * TwoTo57Mod(2 * step) + d) % (2 * step)
        rem == t2 % step
        odd == t2 >= step
    IN  IF 2 * rem < step \/ (2 * rem = step /\ ~odd)
          THEN [c |-> c, d |-> d - rem]
          ELSE [c |-> c, d |-> d - rem + step]

\* The double of a decimal literal such as 0.15 (c = 15)
Float100(c) == FlRound(c, 0)

\* x + y and x - y on doubles: the exact result, rounded
FlAdd(x, y) == FlRound(x.c + y.c, x.d + y.d)
FlSub(x, y) == FlRound(x.c - y.c, x.d - y.d)

\* tools.py:420-427 -- base_weights as doubles
BaseWeights == [k \in DOMAIN BaseWeights100 |-> Float100(BaseWeights100[k])]

\* the statements  base_weights[k] += 0.10  and  base_weights[k] -= 0.05
\* for the keys of d (deltas in hundredths), on doubles
FlAdjust(weights, d) ==
    [k \in DOMAIN weights |->
        IF k \notin DOMAIN d THEN weights[k]
        ELSE IF d[k] >= 0 THEN FlAdd(weights[k], Float100(d[k]))
        ELSE FlSub(weights[k], Float100(-d[k]))]

\* tools.py:418-456 -- _get_dynamic_weights, the weights as doubles
GetDynamicWeights(stage, sector) ==
    FlAdjust(FlAdjust(BaseWeights, StageAdjustment(stage)), SectorAdjustment(sector))

\* sum(weights.values()) as Python computes it: the doubles added one by
\* one, in the order of the dict, starting from 0
RECURSIVE SumValues(_, _)
SumValues(weights, categories) ==
    IF categories = << >> THEN [c |-> 0, d |-> 0]
    ELSE FlAdd(SumValues(weights, SubSeq(categories, 1, Len(categories) - 1)),
               weights[categories[Len(categories)]])

\* sum of the c or d components of the six weights
WeightsSum(weights, field) ==
    weights.financial_benchmarks[field] + weights.market_benchmarks[field]
      + weights.technology_benchmarks[field] + weights.team_benchmarks[field]
      + weights.traction_benchmarks[field] + weights.funding_benchmarks[field]

----------------------------------------------------------------------------
(* Calls of the scorer                                                     *)

\* The largest magnitude of a value the scorer is called with, besides the
\* values around the thresholds of the SaaS revenue-growth median.
MaxValue == 21

ScorerValues == (-MaxValue)..MaxValue \cup {51, 52, 65, 77, 78, 97, 98, 129, 130, 150}
ScorerMedians == {-10, 0, 2, 10, 30, 65}

\* The units of the numbers in a call: whole numbers, tenths, hundredths
\* (value 3 and median 2 in tenths are the doubles 0.3 and 0.2).
ScorerUnits == {1, 10, 100}
Directions == {"higher_better", "lower_better"}

\* tools.py:277-309 -- a call of _calculate_percentile_score
CallCalculatePercentileScore ==
    /\ eng_pc = "called"
    /\ call.fn = "_calculate_percentile_score"
    /\ eng_result' = CalculatePercentileScore10(call.value, call.median, call.direction,
                                              call.unit)
    /\ eng_pc' = "returned"
    /\ UNCHANGED <<call, notEng>>

\* tools.py:311-335 -- a call of _generate_assessment
CallGenerateAssessment ==
    /\ eng_pc = "called"
    /\ call.fn = "_generate_assessment"
    /\ eng_result' = GenerateAssessment(call.value, call.median, call.direction,
                                      call.unit)
    /\ eng_pc' = "returned"
    /\ UNCHANGED <<call, notEng>>

InitScorer ==
    /\ ChainIdle
    /\ ImgIdle
    /\ eng_pc = "called"
    /\ call \in [fn : {"_calculate_percentile_score", "_generate_assessment"},
                 value : ScorerValues, median : ScorerMedians,
                 direction : Directions, unit : ScorerUnits]
    /\ eng_result = None

NextScorer ==
    \/ CallCalculatePercentileScore
    \/ CallGenerateAssessment

SpecScorer == InitScorer /\ [][NextScorer]_vars

----------------------------------------------------------------------------
(* Calls of _calculate_overall_score on arbitrary metric lists             *)

\* The longest metric list of a category in a direct call.
MaxMetrics == 2

\* Lists of at most MaxMetrics metrics with scores 3.5 or 8.0
MetricLists ==
    UNION { [1..n -> {BenchmarkMetric("m", s, "", "") : s \in {35, 80}}] :
              n \in 0..MaxMetrics }

\* The benchmark_metrics of a direct call: three categories with arbitrary
\* lists, one category with one metric, one with an empty list, and no key
\* for technology_benchmarks.
OverallInputs ==
    { [financial_benchmarks |-> f, traction_benchmarks |-> t,
       funding_benchmarks |-> u,
       market_benchmarks |-> << BenchmarkMetric("m", 70, "", "") >>,
       team_benchmarks |-> << >>] :
         f \in MetricLists, t \in MetricLists, u \in MetricLists }

\* tools.py:396-416 -- a call of _calculate_overall_score
CallCalculateOverallScore ==
    /\ eng_pc = "called"
    /\ call.fn = "_calculate_overall_score"
    /\ \E tie_up \in BOOLEAN :
         eng_result' = CalculateOverallScore10(call.benchmark_metrics,
                                               call.company_data, tie_up)
    /\ eng_pc' = "returned"
    /\ UNCHANGED <<call, notEng>>

InitOverall ==
    /\ ChainIdle
    /\ ImgIdle
    /\ eng_pc = "called"
    /\ call \in [fn : {"_calculate_overall_score"},
                 benchmark_metrics : OverallInputs,
                 company_data : [stage : {<< >>, <<S_Seed>>, <<S_series_a>>},
                                 sector : {<< >>, <<S_FinTech>>, <<S_biotech>>}]]
    /\ eng_result = None

NextOverall ==
    \/ CallCalculateOverallScore

SpecOverall == InitOverall /\ [][NextOverall]_vars

----------------------------------------------------------------------------
(* Calls of analyze_startup_benchmarks                                     *)

\* The values of the keys of a company_data that the engines neither score
\* nor copy into the result, as kinds: no such key, a company_name, a
\* company_name and a website of None
OtherValues == { << >>, << "str" >>, << "str", "None" >> }

\* The company_data of the calls.  A field is <<>> when its key is absent;
\* other_values are the values of the other keys.  The dicts with other
\* keys are those that leave the three *_score fields and the customer
\* count out.  Dicts with a company_id are those of the repeated calls
\* (RepeatCompanyDatas).
CompanyDatas ==
    { company_data \in
        [sector : {<< >>, <<S_SaaS>>, <<S_FinTech>>, <<S_agritech>>},
         stage : {<< >>, <<S_Seed>>, <<S_late>>, <<S_series_a>>},
         revenue_growth_yoy : {<< >>, <<0>>, <<78>>, <<150>>},
         burn_multiple : {<< >>, <<14>>, <<35>>, <<60>>},
         total_addressable_market : {<< >>, <<5>>, <<600>>},
         technology_differentiation_score : {<< >>, <<30>>, <<150>>},
         team_experience_score : {<< >>, <<150>>},
         customer_count : {<< >>, <<800>>, <<5000>>},
         funding_efficiency_score : {<< >>, <<-20>>},
         company_id : {<< >>},
         other_values : OtherValues] :
        company_data.other_values # << >> =>
          /\ company_data.technology_differentiation_score = << >>
          /\ company_data.team_experience_score = << >>
          /\ company_data.funding_efficiency_score = << >>
          /\ company_data.customer_count = << >> }

\* tools.py:69-128 -- analyze_startup_benchmarks: the analysis, the
\* warehouse write (call.warehouse is what the warehouse will answer) and
\* the flag it sets
AnalyzeStartupBenchmarks ==
    /\ eng_pc = "called"
    /\ call.fn = "analyze_startup_benchmarks"
    /\ \E tie_up \in BOOLEAN :
         LET analysis_result == BenchmarkAnalysis(call.company_data, tie_up)
             success == SaveToBigQuery(call.warehouse)
         IN  eng_result' = WithSaved(analysis_result, success)
    /\ eng_pc' = "returned"
    /\ UNCHANGED <<call, notEng>>

InitBench ==
    /\ ChainIdle
    /\ ImgIdle
    /\ eng_pc = "called"
    /\ call \in [fn : {"analyze_startup_benchmarks"}, company_data : CompanyDatas,
                 warehouse : WriteOutcomes]
    /\ eng_result = None

NextBench ==
    \/ AnalyzeStartupBenchmarks

SpecBench == InitBench /\ [][NextBench]_vars

----------------------------------------------------------------------------
(* Calls of analyze_startup_benchmarks and analyze_company_risks with a    *)
(* warehouse that stores, rejects or raises                                *)

\* The company_data of the risk calls.  A field is <<>> when its key is
\* absent.
RiskCompanyDatas ==
    [market_cap : {<< >>, <<10>>},
     competitor_count : {<< >>, <<6>>, <<11>>},
     unique_value_prop : {<< >>, <<TRUE>>},
     industry : {<< >>, <<S_FinTech>>, <<S_retail>>},
     rd_investment_percent : {<< >>, <<5>>, <<16>>},
     regulatory_risk_score : {<< >>, <<8>>},
     compliance_team : {<< >>, <<TRUE>>},
     cash_runway_months : {<< >>, <<6>>, <<12>>},
     fundraising_plan : {<< >>, <<FALSE>>, <<TRUE>>},
     cybersecurity_score : {<< >>, <<4>>, <<9>>},
     sensitive_data : {<< >>, <<TRUE>>},
     other_values : OtherValues]

\* The company_data of the benchmark calls made here: those of CompanyDatas
\* that leave the three *_score fields and the customer count out.
SampleCompanyDatas ==
    { company_data \in CompanyDatas :
        /\ company_data.technology_differentiation_score = << >>
        /\ company_data.team_experience_score = << >>
        /\ company_data.funding_efficiency_score = << >>
        /\ company_data.customer_count = << >> }

\* risk_detection_agent/tools.py:67-116 -- analyze_company_risks: the
\* analysis, the warehouse write and the flag it sets
AnalyzeCompanyRisks ==
    /\ eng_pc = "called"
    /\ call.fn = "analyze_company_risks"
    /\ LET analysis_result == RiskAnalysis(call.company_data)
           success == SaveToBigQuery(call.warehouse)
       IN  eng_result' = WithSaved(analysis_result, success)
    /\ eng_pc' = "returned"
    /\ UNCHANGED <<call, notEng>>

InitAnalyze ==
    /\ ChainIdle
    /\ ImgIdle
    /\ eng_pc = "called"
    /\ \/ call \in [fn : {"analyze_startup_benchmarks"},
                    company_data : SampleCompanyDatas, warehouse : WriteOutcomes]
       \/ call \in [fn : {"analyze_company_risks"},
                    company_data : RiskCompanyDatas, warehouse : WriteOutcomes]
    /\ eng_result = None

NextAnalyze ==
    \/ AnalyzeStartupBenchmarks
    \/ AnalyzeCompanyRisks

SpecAnalyze == InitAnalyze /\ [][NextAnalyze]_vars

----------------------------------------------------------------------------
(* Calls of _get_dynamic_weights, one after another                        *)

\* The number of calls made before the one observed.
MaxCalls == 2

\* Stage strings: one per keyword of the three rules, two that no rule
\* matches (the match is case-sensitive), and two that hold the keywords of
\* two rules.
WeightStages ==
    { S_seed, S_pre_series_a, S_series_b, S_growth, S_pre_ipo, S_late,
      S_series_a, S_Seed, S_late_seed, S_growth_late }

\* Sector strings: the three of the rules and two that no rule matches.
WeightSectors == { S_fintech, S_healthcare, S_biotech, S_saas, S_FinTech }

\* tools.py:418-456 -- a call of _get_dynamic_weights.  base_weights is a
\* dict built by the call itself (tools.py:420), so the result depends on
\* the arguments only.
CallGetDynamicWeights ==
    /\ eng_pc = "called"
    /\ call.fn = "_get_dynamic_weights"
    /\ eng_result' = GetDynamicWeights(call.stage, call.sector)
    /\ eng_pc' = "returned"
    /\ UNCHANGED <<call, notEng>>

\* The caller makes another call; the record keeps the arguments of the
\* call before it and the number of calls made so far.
NextWeightsCall ==
    /\ eng_pc = "returned"
    /\ call.fn = "_get_dynamic_weights"
    /\ call.earlier < MaxCalls
    /\ \E stage \in WeightStages, sector \in WeightSectors :
         call' = [fn |-> "_get_dynamic_weights", stage |-> stage,
                  sector |-> sector,
                  previous |-> << call.stage, call.sector >>,
                  earlier |-> call.earlier + 1]
    /\ eng_result' = None
    /\ eng_pc' = "called"
    /\ UNCHANGED notEng

InitWeights ==
    /\ ChainIdle
    /\ ImgIdle
    /\ eng_pc = "called"
    /\ call \in [fn : {"_get_dynamic_weights"}, stage : WeightStages,
                 sector : WeightSectors, previous : {<< >>}, earlier : {0}]
    /\ eng_result = None

NextWeights ==
    \/ CallGetDynamicWeights
    \/ NextWeightsCall

SpecWeights == InitWeights /\ [][NextWeights]_vars

----------------------------------------------------------------------------
(* Calls of _generate_investment_pros and _generate_investment_cons        *)

\* The largest number of metrics in a call (the lists keep the first six).
MaxListed == 7

\* Scores of the listed metrics: on and beside the two thresholds.
ListedScores == {40, 50, 70, 90}

\* The scores [9, 8, 7, 6, 5, 2]
ExampleScores == << 90, 80, 70, 60, 50, 20 >>

\* The metric at position i of a call: its name and assessment tell the
\* position.
ListedMetric(i, score10) ==
    BenchmarkMetric(<< "m1", "m2", "m3", "m4", "m5", "m6", "m7", "m8", "m9" >>[i],
                    score10,
                    << "a1", "a2", "a3", "a4", "a5", "a6", "a7", "a8", "a9" >>[i],
                    "")

\* The score lists of the calls
ListedScoreLists ==
    UNION { [1..n -> ListedScores] : n \in 0..MaxListed } \cup { ExampleScores }

\* The longest metric list that is passed under every choice of keys.
MaxReordered == 5

\* The keys of the benchmark_metrics dict of a call, in insertion order:
\* the order of the pipeline and, for the shorter lists, the reverse and a
\* key of the caller's own.
ListedKeys(scores) ==
    { << "financial_benchmarks", "technology_benchmarks" >> }
      \cup IF Len(scores) <= MaxReordered
             THEN { << "technology_benchmarks", "financial_benchmarks" >>,
                    << "custom_benchmarks", "financial_benchmarks" >> }
             ELSE { }

\* The benchmark_metrics dict of a call: the first two metrics under the
\* first key and the others under the second
ListedBenchmarks(scores, keys) ==
    LET metrics == [i \in 1..Len(scores) |-> ListedMetric(i, scores[i])]
    IN  [k \in {keys[1], keys[2]} |->
            IF k = keys[1] THEN Take(metrics, 2)
                           ELSE SubSeq(metrics, 3, Len(metrics))]

\* tools.py:471-491 -- a call of _generate_investment_pros
CallGenerateInvestmentPros ==
    /\ eng_pc = "called"
    /\ call.fn = "_generate_investment_pros"
    /\ eng_result' = GenerateInvestmentPros(call.benchmark_metrics, call.keys,
                                         call.company_data)
    /\ eng_pc' = "returned"
    /\ UNCHANGED <<call, notEng>>

\* tools.py:493-515 -- a call of _generate_investment_cons
CallGenerateInvestmentCons ==
    /\ eng_pc = "called"
    /\ call.fn = "_generate_investment_cons"
    /\ eng_result' = GenerateInvestmentCons(call.benchmark_metrics, call.keys,
                                         call.company_data)
    /\ eng_pc' = "returned"
    /\ UNCHANGED <<call, notEng>>

InitProsCons ==
    /\ ChainIdle
    /\ ImgIdle
    /\ eng_pc = "called"
    /\ \E scores \in ListedScoreLists :
       \E keys \in ListedKeys(scores) :
         \/ \E revenue \in {<< >>, <<100>>, <<150>>} :
              call = [fn |-> "_generate_investment_pros",
                      benchmark_metrics |-> ListedBenchmarks(scores, keys),
                      keys |-> keys,
                      company_data |-> [revenue_growth_yoy |-> revenue]]
         \/ call = [fn |-> "_generate_investment_cons",
                    benchmark_metrics |-> ListedBenchmarks(scores, keys),
                    keys |-> keys,
                    company_data |-> [revenue_growth_yoy |-> << >>]]
    /\ eng_result = None

NextProsCons ==
    \/ CallGenerateInvestmentPros
    \/ CallGenerateInvestmentCons

SpecProsCons == InitProsCons /\ [][NextProsCons]_vars

----------------------------------------------------------------------------
(* Calls of _calculate_confidence_score                                    *)

\* The largest number of fields of a company_data with values of any kind.
MaxFields == 3

\* A company_data of eight fields, the first filled of them strings and the
\* others 0: the quotients that end in half a hundredth and are binary
\* fractions.
EightFields(filled) ==
    [i \in 1..8 |-> IF i <= filled THEN "str" ELSE "zero_int"]

\* A company_data of forty fields, the first filled of them strings and the
\* others None: the quotients that end in half a hundredth and are no
\* binary fractions (1 / 40, 3 / 40, 7 / 40, ...).
FortyFields(filled) ==
    [i \in 1..40 |-> IF i <= filled THEN "str" ELSE "None"]

\* The company_data of the calls, as the kinds of the values
ConfidenceInputs ==
    UNION { [1..n -> ValueKinds] : n \in 0..MaxFields }
      \cup { EightFields(filled) : filled \in 0..8 }
      \cup { FortyFields(filled) : filled \in 0..40 }

\* tools.py:584-590 -- a call of
\* BenchmarkAnalysisEngine._calculate_confidence_score
CallBenchmarkConfidenceScore ==
    /\ eng_pc = "called"
    /\ call.fn = "BenchmarkAnalysisEngine._calculate_confidence_score"
    /\ eng_result' = CalculateConfidenceScore100(call.company_data)
    /\ eng_pc' = "returned"
    /\ UNCHANGED <<call, notEng>>

\* risk_detection_agent/tools.py:302-306 -- a call of
\* RiskAnalysisEngine._calculate_confidence_score
CallRiskConfidenceScore ==
    /\ eng_pc = "called"
    /\ call.fn = "RiskAnalysisEngine._calculate_confidence_score"
    /\ eng_result' = CalculateConfidenceScore100(call.company_data)
    /\ eng_pc' = "returned"
    /\ UNCHANGED <<call, notEng>>

InitConfidence ==
    /\ ChainIdle
    /\ ImgIdle
    /\ eng_pc = "called"
    /\ call \in [fn : {"BenchmarkAnalysisEngine._calculate_confidence_score",
                       "RiskAnalysisEngine._calculate_confidence_score"},
                 company_data : ConfidenceInputs]
    /\ eng_result = None

NextConfidence ==
    \/ CallBenchmarkConfidenceScore
    \/ CallRiskConfidenceScore

SpecConfidence == InitConfidence /\ [][NextConfidence]_vars

----------------------------------------------------------------------------
(* Calls of _calculate_overall_risk_score                                  *)

\* The longest list of risk factors in a direct call.
MaxRisks == 5

RiskLevels == {"High", "Medium", "Low"}

\* Lists of at most MaxRisks risk factors with every combination of
\* risk scores
RiskFactorLists ==
    UNION { [1..n -> { RiskFactor("r", "Medium", "Medium", level, "None", "Unknown") :
                         level \in RiskLevels }] : n \in 0..MaxRisks }

\* risk_detection_agent/tools.py:237-250 -- a call of
\* _calculate_overall_risk_score
CallCalculateOverallRiskScore ==
    /\ eng_pc = "called"
    /\ call.fn = "_calculate_overall_risk_score"
    /\ eng_result' = CalculateOverallRiskScore(call.risk_factors)
    /\ eng_pc' = "returned"
    /\ UNCHANGED <<call, notEng>>

InitRiskScore ==
    /\ ChainIdle
    /\ ImgIdle
    /\ eng_pc = "called"
    /\ call \in [fn : {"_calculate_overall_risk_score"},
                 risk_factors : RiskFactorLists]
    /\ eng_result = None

NextRiskScore ==
    \/ CallCalculateOverallRiskScore

SpecRiskScore == InitRiskScore /\ [][NextRiskScore]_vars

----------------------------------------------------------------------------
(* Properties of the scorer and of the aggregation                         *)

\* The thresholds of the two ladders, times 10
Thresholds10 == {5, 7, 8, 9, 10, 11, 12, 13, 15, 20}

\* C5: for a non-zero median _calculate_percentile_score returns the ladder
\* value of the band of ratio = value / median: under higher_better 10.0 for
\* ratio >= 2.0, 8.5 for [1.5, 2.0), 7.0 for [1.2, 1.5), 6.0 for [1.0, 1.2),
\* 4.0 for [0.8, 1.0), else 2.0; under lower_better 10.0 for ratio <= 0.5,
\* 8.5 for (0.5, 0.7], 7.0 for (0.7, 0.9], 6.0 for (0.9, 1.1], 4.0 for
\* (1.1, 1.3], else 2.0; value 150 against median 65 scores 10.0.
\* The ratio is the quotient as Python computes it: for whole numbers, and
\* whenever the exact quotient is not a threshold, the band is the band of
\* the exact quotient; for tenths and hundredths whose exact quotient is a
\* threshold the double lies on the threshold or one step beside it, so the
\* score is the one of the band that ends at the threshold or of the band
\* next to it (0.3 / 0.2 is 1.4999999999999998 and scores 7.0, 2.1 / 3.0 is
\* 0.7000000000000001 and scores 7.0 under lower_better).
\* (ratio >= c is stated as value * median >= c * median^2.)
C5_ScoreLadder ==
    (eng_pc = "returned" /\ call.fn = "_calculate_percentile_score"
        /\ call.median # 0) =>
      LET vm == 10 * call.value * call.median
          mm == call.median * call.median
          score == eng_result
          exact == call.unit = 1 \/ \A c \in Thresholds10 : vm # c * mm
          HigherBand(open) ==
              IF vm >= 20 * mm + open THEN 100
              ELSE IF vm >= 15 * mm + open THEN 85
              ELSE IF vm >= 12 * mm + open THEN 70
              ELSE IF vm >= 10 * mm + open THEN 60
              ELSE IF vm >= 8 * mm + open THEN 40
              ELSE 20
          LowerBand(open) ==
              IF vm <= 5 * mm - open THEN 100
              ELSE IF vm <= 7 * mm - open THEN 85
              ELSE IF vm <= 9 * mm - open THEN 70
              ELSE IF vm <= 11 * mm - open THEN 60
              ELSE IF vm <= 13 * mm - open THEN 40
              ELSE 20
      IN  /\ call.direction = "higher_better" =>
                /\ exact => score = HigherBand(0)
                /\ score \in {HigherBand(0), HigherBand(1)}
          /\ call.direction = "lower_better" =>
                /\ exact => score = LowerBand(0)
                /\ score \in {LowerBand(0), LowerBand(1)}
          /\ (call.value = 150 /\ call.median = 65
                /\ call.direction = "higher_better") => score = 100
          /\ (call.value = 3 /\ call.median = 2 /\ call.unit = 10
                /\ call.direction = "higher_better") => score = 70
          /\ (call.value = 21 /\ call.median = 30 /\ call.unit = 10
                /\ call.direction = "lower_better") => score = 70

\* C5 witness: value 150 was scored against median 65 under higher_better.
C5_Witness ==
    /\ eng_pc = "returned"
    /\ call.fn = "_calculate_percentile_score"
    /\ call.value = 150 /\ call.median = 65 /\ call.direction = "higher_better"
    /\ eng_result = 100

\* C6: with median 0 the scorer returns the neutral score 5.0 and the
\* assessment "Insufficient data for comparison" for every value and both
\* directions, and the call returns (no division is attempted).
C6_ZeroMedianNeutral ==
    /\ (eng_pc = "called" /\ call.fn \in {"_calculate_percentile_score",
                                          "_generate_assessment"}
          /\ call.median = 0) =>
           ENABLED (CallCalculatePercentileScore \/ CallGenerateAssessment)
    /\ (eng_pc = "returned" /\ call.fn = "_calculate_percentile_score"
          /\ call.median = 0) => eng_result = 50
    /\ (eng_pc = "returned" /\ call.fn = "_generate_assessment"
          /\ call.median = 0) => eng_result = "Insufficient data for comparison"

\* C6 witness: a non-zero value was scored against median 0.
C6_Witness ==
    /\ eng_pc = "returned"
    /\ call.fn = "_calculate_percentile_score"
    /\ call.median = 0 /\ call.value = 7 /\ call.direction = "lower_better"
    /\ eng_result = 50

\* C7 (as claimed): every metric produced by _generate_dynamic_benchmarks has
\* a score in [0, 10] that is one of 2.0, 4.0, 5.0, 6.0, 7.0, 8.5, 10.0.
C7_ScoresOnLadder ==
    (eng_pc = "returned" /\ call.fn = "analyze_startup_benchmarks") =>
        \A c \in DOMAIN eng_result.benchmark_metrics :
            \A i \in 1..Len(eng_result.benchmark_metrics[c]) :
                LET score == eng_result.benchmark_metrics[c][i].score10
                IN  /\ 0 <= score /\ score <= 100
                    /\ score \in {20, 40, 50, 60, 70, 85, 100}

\* C8: _calculate_overall_score returns the sum over the six weighted
\* categories of category score x weight, rounded to one decimal place (the
\* result is within 0.05 of the sum); the category score is the mean of the
\* category's metric scores, and 5.0 for a category without metrics, whose
\* weight is kept.  (Means are taken times 60, a multiple of every list
\* length up to 5.)
C8_OverallIsWeightedMean ==
    (eng_pc = "returned" /\ call.fn = "_calculate_overall_score") =>
      LET m == call.benchmark_metrics
          w == GetDynamicWeights100(Lower(Get(call.company_data.stage, S_series_b)),
                                    Lower(Get(call.company_data.sector, S_saas)))
          Mean60(c) == IF c \in DOMAIN m /\ Len(m[c]) > 0
                         THEN (60 * SumScores10(m[c])) \div Len(m[c])
                         ELSE 60 * 50
          sum6000 == Mean60("financial_benchmarks") * w.financial_benchmarks
                   + Mean60("market_benchmarks") * w.market_benchmarks
                   + Mean60("technology_benchmarks") * w.technology_benchmarks
                   + Mean60("team_benchmarks") * w.team_benchmarks
                   + Mean60("traction_benchmarks") * w.traction_benchmarks
                   + Mean60("funding_benchmarks") * w.funding_benchmarks
          diff == 6000 * eng_result - sum6000
      IN  /\ 2 * diff <= 6000
          /\ 2 * diff >= -6000

\* C8 witness: a call with an empty category, a category without key and a
\* two-metric category has returned.
C8_Witness ==
    /\ eng_pc = "returned"
    /\ call.fn = "_calculate_overall_score"
    /\ call.benchmark_metrics.team_benchmarks = << >>
    /\ "technology_benchmarks" \notin DOMAIN call.benchmark_metrics
    /\ Len(call.benchmark_metrics.financial_benchmarks) = 2
    /\ call.benchmark_metrics.funding_benchmarks = << >>

\* C9 (as claimed): the overall_score of every analysis result lies in
\* [0, 10].
C9_OverallInRange ==
    (eng_pc = "returned" /\ call.fn = "analyze_startup_benchmarks") =>
        (0 <= eng_result.overall_score10 /\ eng_result.overall_score10 <= 100)

\* C10: the recommendation of an analysis result is the single label of the
\* band of that result's overall_score: STRONG BUY for >= 9.0, BUY for
\* [7.5, 9.0), HOLD for [6.0, 7.5), WEAK BUY for [4.0, 6.0), AVOID below 4.0.
C10_RecommendationBands ==
    (eng_pc = "returned" /\ call.fn = "analyze_startup_benchmarks") =>
      LET score == eng_result.overall_score10
          label == eng_result.investment_recommendation
      IN  /\ label \in {"STRONG BUY", "BUY", "HOLD", "WEAK BUY", "AVOID"}
          /\ (label = "STRONG BUY") <=> (score >= 90)
          /\ (label = "BUY") <=> (score >= 75 /\ score < 90)
          /\ (label = "HOLD") <=> (score >= 60 /\ score < 75)
          /\ (label = "WEAK BUY") <=> (score >= 40 /\ score < 60)
          /\ (label = "AVOID") <=> (score < 40)

\* C10 witness: a result whose overall_score is exactly 7.5 is labelled BUY.
C10_Witness ==
    /\ eng_pc = "returned"
    /\ call.fn = "analyze_startup_benchmarks"
    /\ eng_result.overall_score10 = 75
    /\ eng_result.investment_recommendation = "BUY"

----------------------------------------------------------------------------
(* Properties of the weights                                               *)

\* A call of _get_dynamic_weights has returned.
WeightsReturned == eng_pc = "returned" /\ call.fn = "_get_dynamic_weights"

\* One unit of the last place of 1.0 (2^-52), in the unit of the d fields.
UlpOfOne == 100 * 32

\* C11: for every stage and sector the six weights returned by
\* _get_dynamic_weights sum to 1.0 up to rounding: their decimal values sum
\* to exactly 1.00, and both the exact sum of the six doubles and the sum
\* Python's sum() computes differ from 1.0 by at most one unit in the last
\* place of 1.0.
C11_WeightsSumToOne ==
    WeightsReturned =>
      /\ WeightsSum(eng_result, "c") = 100
      /\ Abs(WeightsSum(eng_result, "d")) <= UlpOfOne
      /\ SumValues(eng_result, WeightCategories).c = 100
      /\ Abs(SumValues(eng_result, WeightCategories).d) <= UlpOfOne

\* C11 witness: the weights of a growth-stage healthcare company were
\* returned, a stage rule and a sector rule both applied.
C11_Witness ==
    /\ WeightsReturned
    /\ call.stage = S_growth
    /\ call.sector = S_healthcare
    /\ eng_result.financial_benchmarks.c = 25

\* C12: for every stage and sector every weight returned by
\* _get_dynamic_weights is greater than or equal to 0.
C12_WeightsNonNegative ==
    WeightsReturned =>
      \A k \in DOMAIN eng_result :
        eng_result[k].c > 0 \/ (eng_result[k].c = 0 /\ eng_result[k].d >= 0)

\* C13: for a stage that no stage rule matches and a sector that no sector
\* rule matches _get_dynamic_weights returns exactly the base table
\* (financial 0.25, market 0.20, technology 0.20, team 0.15, traction 0.15,
\* funding 0.05), whatever calls were made before.
C13_UnknownGetsBaseTable ==
    (WeightsReturned /\ call.stage \in {S_series_a, S_Seed}
        /\ call.sector \in {S_saas, S_FinTech}) =>
      eng_result =
        [financial_benchmarks |-> Float100(25), market_benchmarks |-> Float100(20),
         technology_benchmarks |-> Float100(20), team_benchmarks |-> Float100(15),
         traction_benchmarks |-> Float100(15), funding_benchmarks |-> Float100(5)]

\* C13 witness: the base table was returned by a call that followed a call
\* for a late-stage fintech company.
C13_Witness ==
    /\ WeightsReturned
    /\ call.stage = S_series_a
    /\ call.sector = S_saas
    /\ call.earlier >= 1
    /\ call.previous = << S_late, S_fintech >>
    /\ eng_result.team_benchmarks.c = 15

\* The deltas of the rules, in hundredths, in the order financial, market,
\* technology, team, traction, funding.
RuleDeltas(financial, market, technology, team, traction, funding) ==
    [financial_benchmarks |-> financial, market_benchmarks |-> market,
     technology_benchmarks |-> technology, team_benchmarks |-> team,
     traction_benchmarks |-> traction, funding_benchmarks |-> funding]

\* C14: _get_dynamic_weights returns the base table plus the deltas of at
\* most one stage rule plus the deltas of at most one sector rule: early
\* (seed, pre_series_a) raises team and lowers financial and traction;
\* growth (series_b, growth) raises financial and lowers team and market;
\* late (pre_ipo, late) raises financial and funding and lowers technology
\* and team; fintech raises financial and technology and lowers market and
\* team; healthcare / biotech raises technology and team and lowers traction
\* and financial; a stage that matches two rules gets only the first in the
\* order early, growth, late.  Each weight is the decimal sum up to the
\* rounding of the additions (less than 2^-53).
C14_BasePlusRuleDeltas ==
    WeightsReturned =>
      LET stageDeltas ==
            IF call.stage \in {S_seed, S_pre_series_a, S_late_seed}
              THEN RuleDeltas(-5, 0, 0, 10, -5, 0)
            ELSE IF call.stage \in {S_series_b, S_growth, S_growth_late}
              THEN RuleDeltas(10, -5, 0, -5, 0, 0)
            ELSE IF call.stage \in {S_pre_ipo, S_late}
              THEN RuleDeltas(15, 0, -10, -10, 0, 5)
            ELSE RuleDeltas(0, 0, 0, 0, 0, 0)
          sectorDeltas ==
            IF call.sector = S_fintech
              THEN RuleDeltas(10, -10, 5, -5, 0, 0)
            ELSE IF call.sector \in {S_healthcare, S_biotech}
              THEN RuleDeltas(-10, 0, 10, 10, -10, 0)
            ELSE RuleDeltas(0, 0, 0, 0, 0, 0)
          base == RuleDeltas(25, 20, 20, 15, 15, 5)
      IN  \A k \in DOMAIN base :
            /\ eng_result[k].c = base[k] + stageDeltas[k] + sectorDeltas[k]
            /\ Abs(eng_result[k].d) < 100 * 16

\* C14 witness: a stage holding the keywords of the late and of the early
\* rule, with sector fintech, got the early and the fintech deltas.
C14_Witness ==
    /\ WeightsReturned
    /\ call.stage = S_late_seed
    /\ call.sector = S_fintech
    /\ eng_result.team_benchmarks.c = 20
    /\ eng_result.financial_benchmarks.c = 30

----------------------------------------------------------------------------
(* Properties of the pros and cons lists                                   *)

\* The metrics passed to the call, in input order: the lists of the dict
\* in the order of its keys.
ListedInput ==
    call.benchmark_metrics[call.keys[1]] \o call.benchmark_metrics[call.keys[2]]

\* The number of metrics that come before metric i when the input is
\* ordered by score (descending or ascending), ties in input order.
Ahead(i, descending) ==
    Cardinality({ j \in 1..Len(ListedInput) :
        \/ (IF descending
               THEN ListedInput[j].score10 > ListedInput[i].score10
               ELSE ListedInput[j].score10 < ListedInput[i].score10)
        \/ ListedInput[j].score10 = ListedInput[i].score10 /\ j < i })

\* The positions of the metrics among the 6 highest-scoring with score >= 7.0
StrongPositions ==
    { i \in 1..Len(ListedInput) :
        Ahead(i, TRUE) < 6 /\ ListedInput[i].score10 >= 70 }

\* The positions of the metrics among the 6 lowest-scoring with score <= 5.0
WeakPositions ==
    { i \in 1..Len(ListedInput) :
        Ahead(i, FALSE) < 6 /\ ListedInput[i].score10 <= 50 }

\* The first k entries of the returned list are the entries (name +
\* assessment) of the metrics at the given positions, one each, ordered by
\* score with ties in input order: entry p is the metric that p - 1 of the
\* others come before.
EntriesOfPositions(k, positions, descending) ==
    /\ k <= Len(eng_result)
    /\ \A p \in 1..k : \E i \in positions :
          /\ eng_result[p] = [title |-> ListedInput[i].name,
                              text |-> ListedInput[i].assessment]
          /\ Cardinality({ j \in positions :
                Ahead(j, descending) < Ahead(i, descending) }) = p - 1

\* C15 as claimed: the pros list is exactly one entry per metric among the
\* 6 highest-scoring with score >= 7.0, in descending score order with ties
\* in input order, and nothing else; for scores [9,8,7,6,5,2] it is the
\* three entries of the metrics scored 9, 8, 7.
C15_ProsAreStrongMetricsOnly ==
    (eng_pc = "returned" /\ call.fn = "_generate_investment_pros") =>
      /\ Len(eng_result) = Cardinality(StrongPositions)
      /\ EntriesOfPositions(Cardinality(StrongPositions), StrongPositions, TRUE)

\* C15 amended: the pros list is one entry per metric among the 6
\* highest-scoring with score >= 7.0, in descending score order with ties
\* in input order, followed by one "Strong Revenue Growth" entry when
\* revenue_growth_yoy is greater than 100, the whole cut to 6 entries; for
\* scores [9,8,7,6,5,2] and a revenue_growth_yoy absent or at most 100 it is
\* the three entries of the metrics scored 9, 8, 7 in that order.
C15_ProsAreStrongMetricsThenRevenue ==
    (eng_pc = "returned" /\ call.fn = "_generate_investment_pros") =>
      LET k == Cardinality(StrongPositions)
          revenue == call.company_data.revenue_growth_yoy
          strong_growth == revenue # << >> /\ revenue[1] > 100
      IN  /\ EntriesOfPositions(k, StrongPositions, TRUE)
          /\ Len(eng_result) = IF strong_growth /\ k < 6 THEN k + 1 ELSE k
          /\ (strong_growth /\ k < 6) =>
                eng_result[k + 1] = [title |-> "Strong Revenue Growth",
                                     text |-> revenue[1]]
          /\ ([i \in 1..Len(ListedInput) |-> ListedInput[i].score10] = ExampleScores
                /\ ~strong_growth) =>
                eng_result = << [title |-> "m1", text |-> "a1"],
                                [title |-> "m2", text |-> "a2"],
                                [title |-> "m3", text |-> "a3"] >>

\* C15 witness: the pros of the scores [9,8,7,6,5,2] with a revenue growth
\* of 150 were returned: three metric entries and the revenue entry.
C15_Witness ==
    /\ eng_pc = "returned"
    /\ call.fn = "_generate_investment_pros"
    /\ [i \in 1..Len(ListedInput) |-> ListedInput[i].score10] = ExampleScores
    /\ call.company_data.revenue_growth_yoy = << 150 >>
    /\ Len(eng_result) = 4
    /\ eng_result[4].title = "Strong Revenue Growth"

\* C16 as claimed: the cons list is exactly one entry per metric among the
\* 6 lowest-scoring with score <= 5.0, in ascending score order with ties
\* in input order, and nothing else; for scores [9,8,7,6,5,2] it is the two
\* entries of the metrics scored 2 and 5.
C16_ConsAreWeakMetricsOnly ==
    (eng_pc = "returned" /\ call.fn = "_generate_investment_cons") =>
      /\ Len(eng_result) = Cardinality(WeakPositions)
      /\ EntriesOfPositions(Cardinality(WeakPositions), WeakPositions, FALSE)

\* C16 amended: the cons list is one entry per metric among the 6
\* lowest-scoring with score <= 5.0, in ascending score order with ties in
\* input order, followed by the two standard cons "Market Competition" and
\* "Execution Risk", the whole cut to 6 entries; for scores [9,8,7,6,5,2]
\* it is the entries of the metrics scored 2 and 5 and the two standard
\* cons.
C16_ConsAreWeakMetricsThenStandard ==
    (eng_pc = "returned" /\ call.fn = "_generate_investment_cons") =>
      LET k == Cardinality(WeakPositions)
          competition == [title |-> "Market Competition",
                          text |-> "Intense competitive landscape"]
          execution == [title |-> "Execution Risk",
                        text |-> "Achieving growth targets depends on execution"]
      IN  /\ EntriesOfPositions(k, WeakPositions, FALSE)
          /\ Len(eng_result) = IF k + 2 > 6 THEN 6 ELSE k + 2
          /\ k < 6 => eng_result[k + 1] = competition
          /\ k < 5 => eng_result[k + 2] = execution
          /\ [i \in 1..Len(ListedInput) |-> ListedInput[i].score10] = ExampleScores =>
                eng_result = << [title |-> "m6", text |-> "a6"],
                                [title |-> "m5", text |-> "a5"],
                                competition, execution >>

\* C16 witness: the cons of seven metrics, five of them weak, were
\* returned: five metric entries in ascending order and one standard con.
C16_Witness ==
    /\ eng_pc = "returned"
    /\ call.fn = "_generate_investment_cons"
    /\ Cardinality(WeakPositions) = 5
    /\ Len(ListedInput) = 7
    /\ Len(eng_result) = 6
    /\ eng_result[1].title = "m7"
    /\ eng_result[6].title = "Market Competition"

----------------------------------------------------------------------------
(* Properties of the confidence score                                      *)

\* The kinds of value the claim calls not present: null, the empty string,
\* zero (False is Python's integer 0), the empty list and the empty mapping.
NotPresent ==
    { "None", "empty_str", "zero_int", "zero_float", "False", "empty_list",
      "empty_dict" }

\* C17: _calculate_confidence_score of both engines returns the number of
\* present fields divided by the number of fields, rounded to two
\* decimals, a value being present exactly when it is not null, not the
\* empty string, not zero and not an empty list or empty mapping; the
\* result lies in [0, 1] and is 0.0 for a company_data without fields.
C17_ConfidenceIsPresentFraction ==
    (eng_pc = "returned"
        /\ call.fn \in {"BenchmarkAnalysisEngine._calculate_confidence_score",
                        "RiskAnalysisEngine._calculate_confidence_score"}) =>
      LET total == Len(call.company_data)
          present == Cardinality({ i \in 1..total :
                                     call.company_data[i] \notin NotPresent })
      IN  /\ eng_result \in 0..100
          /\ total = 0 => eng_result = 0
          /\ total > 0 =>
                /\ 2 * Abs(total * eng_result - 100 * present) <= total

----------------------------------------------------------------------------
(* Properties of the overall risk score                                    *)

\* C18: for a list of risk factors _calculate_overall_risk_score returns
\* High when the fraction of factors with risk_score High is >= 0.4, Medium
\* when it is >= 0.2 and < 0.4, and Low when it is < 0.2.
C18_RiskScoreBands ==
    (eng_pc = "returned" /\ call.fn = "_calculate_overall_risk_score"
        /\ call.risk_factors # << >>) =>
      LET n == Len(call.risk_factors)
          high == Cardinality({ i \in 1..n :
                                  call.risk_factors[i].risk_score = "High" })
      IN  /\ eng_result \in {"High", "Medium", "Low"}
          /\ eng_result = "High" <=> 10 * high >= 4 * n
          /\ eng_result = "Medium" <=> (10 * high >= 2 * n /\ 10 * high < 4 * n)
          /\ eng_result = "Low" <=> 10 * high < 2 * n

\* C18 witness: two High factors of five (the fraction is exactly 0.4) gave
\* High.
C18_Witness ==
    /\ eng_pc = "returned"
    /\ call.fn = "_calculate_overall_risk_score"
    /\ Len(call.risk_factors) = 5
    /\ Cardinality({ i \in 1..5 : call.risk_factors[i].risk_score = "High" }) = 2
    /\ eng_result = "High"

----------------------------------------------------------------------------
(* Properties of the warehouse write                                       *)

\* C19: when the warehouse write fails (row errors, or the client raises)
\* analyze_startup_benchmarks and analyze_company_risks still return the
\* complete analysis result, in every computed field the analysis of the
\* company_data whatever the warehouse answered, with bigquery_saved =
\* false; bigquery_saved is true if and only if the write succeeded.
C19_WriteFailureKeepsAnalysis ==
    (eng_pc = "returned"
        /\ call.fn \in {"analyze_startup_benchmarks", "analyze_company_risks"}) =>
      LET computed == [k \in DOMAIN eng_result \ {"bigquery_saved"} |-> eng_result[k]]
      IN  /\ "bigquery_saved" \in DOMAIN eng_result
          /\ eng_result.bigquery_saved = (call.warehouse = "inserted")
          /\ call.fn = "analyze_startup_benchmarks" =>
                \E tie_up \in BOOLEAN :
                  computed = BenchmarkAnalysis(call.company_data, tie_up)
          /\ call.fn = "analyze_company_risks" =>
                computed = RiskAnalysis(call.company_data)

\* C19 witness: the warehouse client raised during a risk analysis, and the
\* analysis was returned with bigquery_saved = false.
C19_Witness ==
    /\ eng_pc = "returned"
    /\ call.fn = "analyze_company_risks"
    /\ call.warehouse = "raised"
    /\ eng_result.bigquery_saved = FALSE
    /\ eng_result.overall_risk_score = "High"
    /\ Len(eng_result.risk_factors) = 5

----------------------------------------------------------------------------
(* Properties of the pitch-deck pipeline                                   *)

\* The failures of upload_and_analyze_pitch_deck: the file is missing, the
\* upload failed, the extraction failed (for a non-PDF file: the OCR
\* failed), or the extracted text is shorter than 50 characters.
MissingFile == ~file.exists
UploadFailed == gcs_result # None /\ ~gcs_result.success
ExtractionFailed == vision_result # None /\ ~vision_result.success
TextTooShort ==
    /\ vision_result # None
    /\ vision_result.success
    /\ vision_result.extracted_text < 50

\* C20: upload_and_analyze_pitch_deck never raises to its caller: what it
\* returns is always a result dict, and for a missing file, a failed upload,
\* a failed extraction (a non-PDF file whose OCR failed included) and an
\* extracted text shorter than 50 characters the result has success = false,
\* an error reason and the session_id.
C20_FailuresAreReturnedNotRaised ==
    pc = "returned" =>
        /\ "success" \in DOMAIN ret
        /\ (MissingFile \/ UploadFailed \/ ExtractionFailed \/ TextTooShort)
              => ret.success = FALSE
        /\ ret.success = FALSE =>
              /\ "error" \in DOMAIN ret
              /\ ret.error # ""
              /\ "session_id" \in DOMAIN ret
              /\ ret.session_id = SessionId

\* The paths given whose name ends in ".pdf", whatever the case.
PdfPaths == {path \in InputPaths : IsPdf(path)}

\* C20 witness: a non-PDF file whose OCR failed; the KeyError of the text
\* lookup came back as a failure result.
C20_Witness ==
    /\ pc = "returned"
    /\ file.argument \notin PdfPaths
    /\ ExtractionFailed
    /\ ret = [success |-> FALSE, error |-> "'extracted_text'",
              session_id |-> SessionId]

\* The positions in steps of the calls of the given function.
CallsOf(fn) == {i \in DOMAIN steps : steps[i].call = fn}

\* The PDF given, in/deck.PDF, and its cleaned copy, in/deck_cleaned.pdf
InDeckPdf == << "i","n","/","d","e","c","k",".","P","D","F" >>
InDeckCleanedPdf ==
    << "i","n","/","d","e","c","k","_","c","l","e","a","n","e","d",".","p","d","f" >>

\* The ghostscript run left a usable cleaned copy.
CleaningSucceeded(outcome) ==
    /\ outcome.kind = "exited"
    /\ outcome.returncode = 0
    /\ outcome.output_bytes > 1000

\* C21: a PDF is pre-processed, before the upload and the extraction, exactly
\* when its size is above 5 MiB; when the pre-processing fails (non-zero exit,
\* exception, timeout, an output of at most 1000 bytes) the pipeline goes on
\* with the original path and does not fail; when it succeeds the pipeline
\* goes on with the cleaned file.
C21_PreprocessLargePdfOnly ==
    /\ \A j \in CallsOf("preprocess_problematic_pdf") :
          /\ \A i \in DOMAIN steps :
                steps[i].call \in {"upload_file_to_gcs",
                                   "enhanced_pdf_extraction_pipeline",
                                   "extract_text_with_vision"} => j < i
          /\ pc # "preprocess"
          /\ pc = "returned" => CallsOf("upload_file_to_gcs") # {}
    /\ \A i \in CallsOf("upload_file_to_gcs") \cup
                 CallsOf("enhanced_pdf_extraction_pipeline") :
          /\ CallsOf("preprocess_problematic_pdf") # {}
                <=> (file.argument \in PdfPaths /\ file.size > 5 * 1024 * 1024)
          /\ Cardinality(CallsOf("preprocess_problematic_pdf")) <= 1
          /\ \A j \in CallsOf("preprocess_problematic_pdf") :
                steps[i].path = IF CleaningSucceeded(steps[j].outcome)
                                  THEN InDeckCleanedPdf
                                  ELSE file.argument
          /\ CallsOf("preprocess_problematic_pdf") = {}
                => steps[i].path = file.argument

\* C21 witness: the cleaning of a large PDF timed out, the original file
\* was uploaded and extracted, and the pipeline returned an analysis.
C21_Witness ==
    /\ pc = "returned"
    /\ file.size > 5 * 1024 * 1024
    /\ \E j \in CallsOf("preprocess_problematic_pdf") :
          steps[j].outcome.kind = "timeout"
    /\ \E i \in CallsOf("enhanced_pdf_extraction_pipeline") :
          steps[i].path = InDeckPdf
    /\ ret.success

\* The place of a call in the order of the pipeline's steps.
StepRank(step) ==
    CASE step.call = "os.path.exists" -> 1
      [] step.call = "preprocess_problematic_pdf" -> 2
      [] step.call = "upload_file_to_gcs" -> 3
      [] step.call \in {"enhanced_pdf_extraction_pipeline",
                        "extract_text_with_vision"} -> 4
      [] step.call = "analyze_startup_content" -> 5
      [] step.call = "save_to_bigquery" -> 6

ExtractionCalls ==
    CallsOf("enhanced_pdf_extraction_pipeline") \cup CallsOf("extract_text_with_vision")

\* C24: the steps of upload_and_analyze_pitch_deck happen in the order
\* existence check, optional pre-processing, upload, extraction, content
\* analysis, warehouse write; extraction starts only after a successful
\* upload, content analysis only after a successful extraction, the warehouse
\* write is attempted at most once and only after content analysis; a missing
\* file is never uploaded and a failed upload or extraction is never written
\* to the warehouse.
C24_StepsInOrder ==
    /\ \A i, j \in DOMAIN steps : i < j => StepRank(steps[i]) < StepRank(steps[j])
    /\ steps # <<>> => steps[1].call = "os.path.exists"
    /\ ExtractionCalls # {} =>
          /\ CallsOf("upload_file_to_gcs") # {}
          /\ gcs_result # None
          /\ gcs_result.success
    /\ CallsOf("analyze_startup_content") # {} =>
          /\ ExtractionCalls # {}
          /\ vision_result # None
          /\ vision_result.success
    /\ Cardinality(CallsOf("save_to_bigquery")) <= 1
    /\ CallsOf("save_to_bigquery") # {} => CallsOf("analyze_startup_content") # {}
    /\ MissingFile => CallsOf("upload_file_to_gcs") = {}
    /\ (UploadFailed \/ ExtractionFailed) => CallsOf("save_to_bigquery") = {}

\* C24 witness: a run that made all six steps, for a large PDF.
C24_Witness ==
    /\ pc = "returned"
    /\ Len(steps) = 6
    /\ \A i \in 1..6 : StepRank(steps[i]) = i
    /\ "bigquery_saved" \in DOMAIN ret

----------------------------------------------------------------------------
(* Repeated calls of analyze_startup_benchmarks on the one engine           *)
(* (tools.py:641-658: every call goes to the module's benchmark_engine)     *)

\* The longest series of invocations.
MaxInvocations == 3

\* The number of company_data dicts the caller holds.
MaxDicts == 2

S_company_7 == << "c","o","m","p","a","n","y","-","7" >>

\* What the caller writes into a company_data dict: with and without a
\* company_id, with a revenue growth of 0 (a key the confidence does not
\* count as filled) and of 150, and, for the dicts whose revenue growth is
\* 0, with and without a sector
RepeatCompanyDatas ==
    { company_data \in
        [sector : {<< >>, <<S_SaaS>>},
         stage : {<<S_Seed>>},
         revenue_growth_yoy : {<<0>>, <<150>>},
         burn_multiple : {<<35>>},
         total_addressable_market : {<<600>>},
         technology_differentiation_score : {<< >>},
         team_experience_score : {<< >>},
         customer_count : {<< >>},
         funding_efficiency_score : {<< >>},
         company_id : {<< >>, <<S_company_7>>},
         other_values : {<< >>}] :
        company_data.sector = << >> \/ company_data.revenue_growth_yoy = <<0>> }

\* One invocation: which of the caller's dicts it passes (a dict is passed
\* by reference) and what the warehouse will answer to its write.
Invocations ==
    [company_data : 1..MaxDicts, warehouse : {"inserted", "raised"}]

\* tools.py:91-94 -- the identifiers and the date of the n-th invocation:
\* company_data.get("company_id", str(uuid.uuid4())); str(uuid.uuid4()) is a
\* value no other call gets, datetime.utcnow() is the time of the call
WithIdentifiers(analysis_result, company_id, n) ==
    [k \in DOMAIN analysis_result \cup {"company_id", "session_id", "analysis_date"} |->
        CASE k = "company_id" -> Get(company_id, <<"uuid4", n, 1>>)
          [] k = "session_id" -> <<"uuid4", n, 2>>
          [] k = "analysis_date" -> <<"utcnow", n>>
          [] OTHER -> analysis_result[k]]

\* Mutant of CompanyDataAfterAnalysis: the date of the analysis is stored
\* under a key of the dict the caller passed (company_data["analysis_date"]
\* = ...) as well as in the result.
CompanyDataAfterAnalysis_StampsInput(company_data) ==
    [company_data EXCEPT !.other_values = Append(@, "str")]

\* tools.py:69-128, 130-245, 396-456, 471-590 -- the caller's dict after
\* analyze_startup_benchmarks: the engine reads it with .get, [], len and
\* .values() and assigns to none of its keys
CompanyDataAfterAnalysis(company_data) == company_data

\* tools.py:69-128, 645-658 -- the next invocation of the series on the
\* module's benchmark_engine, which keeps nothing from one call to the next
\* (its attributes are set in __init__ only).  The call reads the dict it is
\* passed as the dict is now.
AnalyzeNextInvocation ==
    /\ eng_pc = "called"
    /\ call.fn = "analyze_startup_benchmarks*"
    /\ Len(eng_result) < Len(call.invocations)
    /\ \E tie_up \in BOOLEAN :
         LET n == Len(eng_result) + 1
             invocation == call.invocations[n]
             company_data == call.company_datas[invocation.company_data]
             analysis_result ==
                 WithIdentifiers(BenchmarkAnalysis(company_data, tie_up),
                                 company_data.company_id, n)
             success == SaveToBigQuery(invocation.warehouse)
         IN  /\ eng_result' = Append(eng_result, WithSaved(analysis_result, success))
             /\ call' = [call EXCEPT !.company_datas[invocation.company_data] =
                                        CompanyDataAfterAnalysis(company_data)]
    /\ UNCHANGED <<eng_pc, notEng>>

\* The series is over.
ReturnFromInvocations ==
    /\ eng_pc = "called"
    /\ call.fn = "analyze_startup_benchmarks*"
    /\ Len(eng_result) = Len(call.invocations)
    /\ eng_pc' = "returned"
    /\ UNCHANGED <<call, eng_result, notEng>>

\* The caller builds its dicts (call.built keeps what it wrote,
\* call.company_datas are the dict objects) and makes a series of calls.
InitRepeat ==
    /\ ChainIdle
    /\ ImgIdle
    /\ eng_pc = "called"
    /\ \E n \in 1..MaxInvocations, built \in [1..MaxDicts -> RepeatCompanyDatas] :
         call \in [fn : {"analyze_startup_benchmarks*"},
                   built : {built},
                   company_datas : {built},
                   invocations : [1..n -> Invocations]]
    /\ eng_result = << >>

NextRepeat ==
    \/ AnalyzeNextInvocation
    \/ ReturnFromInvocations

SpecRepeat == InitRepeat /\ [][NextRepeat]_vars

\* The company_data the caller built for invocation i.
BuiltFor(i) == call.built[call.invocations[i].company_data]

\* Invocations i and j of the series were made with identical company_data:
\* with the same dict, or with two dicts the caller filled alike.
SameInput(i, j) == BuiltFor(i) = BuiltFor(j)

\* The generated fields of the result of invocation i.
GeneratedFields(i) ==
    {"session_id", "analysis_date"}
    \cup (IF BuiltFor(i).company_id = << >> THEN {"company_id"} ELSE {})

\* The results of invocations i and j are equal in every field but those of
\* except.
EqualBut(i, j, except) ==
    /\ DOMAIN eng_result[i] = DOMAIN eng_result[j]
    /\ \A k \in DOMAIN eng_result[i] \ except : eng_result[i][k] = eng_result[j][k]

\* C22 (as claimed): two invocations with identical company_data, whatever
\* was invoked between them, return results equal in every field other than
\* the generated identifiers and timestamps.
C22_EqualButIdentifiers ==
    call.fn = "analyze_startup_benchmarks*" =>
        \A i, j \in DOMAIN eng_result :
            SameInput(i, j) => EqualBut(i, j, GeneratedFields(i))

\* C22 (amended): two invocations with identical company_data, whatever was
\* invoked between them (calls with the same dict included), return results
\* equal in every field other than the generated identifiers and timestamps
\* and bigquery_saved, which reports what became of that invocation's own
\* warehouse write; overall_score, investment_recommendation,
\* benchmark_metrics, pros, cons and confidence_score are equal, and a
\* supplied company_id is returned.
C22_EqualButIdentifiersAndSaved ==
    call.fn = "analyze_startup_benchmarks*" =>
        \A i, j \in DOMAIN eng_result :
            SameInput(i, j) =>
                /\ EqualBut(i, j, GeneratedFields(i) \cup {"bigquery_saved"})
                /\ \A k \in {"overall_score10", "investment_recommendation",
                               "benchmark_metrics", "investment_pros",
                               "investment_cons", "confidence_score100"} :
                      /\ k \in DOMAIN eng_result[i]
                      /\ eng_result[i][k] = eng_result[j][k]
                /\ BuiltFor(i).company_id # << >> =>
                      eng_result[i].company_id = BuiltFor(i).company_id[1]

\* C22 witness: the first and the third invocation passed the same dict, one
\* without a sector and with a company_id, the second passed a dict with
\* other data (a sector too: 5 of its 6 keys are filled); only one of the
\* two writes was stored; the two results differ in session_id and
\* bigquery_saved and agree in the confidence score, which counts the
\* company_id (4 of the 5 keys are filled).
C22_Witness ==
    /\ call.fn = "analyze_startup_benchmarks*"
    /\ eng_pc = "returned"
    /\ Len(eng_result) = 3
    /\ call.invocations[1].company_data = call.invocations[3].company_data
    /\ ~SameInput(1, 2)
    /\ BuiltFor(1).sector = << >>
    /\ BuiltFor(1).company_id = <<S_company_7>>
    /\ BuiltFor(1).revenue_growth_yoy = <<0>>
    /\ eng_result[1].bigquery_saved # eng_result[3].bigquery_saved
    /\ eng_result[1].session_id # eng_result[3].session_id
    /\ eng_result[1].overall_score10 = eng_result[3].overall_score10
    /\ eng_result[1].confidence_score100 = 80
    /\ eng_result[2].confidence_score100 = 83
    /\ eng_result[3].confidence_score100 = 80

----------------------------------------------------------------------------
(* The JSON recovery of the founder analysis                                *)
(* (founder_analysis_agent/agent.py).  A text is a sequence of characters.  *)

\* str.find(ch): the first position of ch in text (1-based), 0 when there is
\* none (Python: -1)
RECURSIVE FindFrom(_, _, _)
FindFrom(text, ch, i) ==
    IF i > Len(text) THEN 0
    ELSE IF text[i] = ch THEN i
    ELSE FindFrom(text, ch, i + 1)

Find(text, ch) == FindFrom(text, ch, 1)

\* Mutant of MatchingBrace: the scan stops at the first closing brace.
RECURSIVE MatchingBrace_FirstClosing(_, _, _)
MatchingBrace_FirstClosing(text, i, depth) ==
    IF i > Len(text) THEN 0
    ELSE IF text[i] = "}" THEN i
    ELSE MatchingBrace_FirstClosing(text, i + 1, depth)

\* founder_analysis_agent/agent.py:100-108 -- the loop from position i with
\* the depth reached so far: the position of the closing brace at which the
\* depth is back at zero, 0 when the loop runs off the text
RECURSIVE MatchingBrace(_, _, _)
MatchingBrace(text, i, depth) ==
    IF i > Len(text) THEN 0
    ELSE IF text[i] = "{" THEN MatchingBrace(text, i + 1, depth + 1)
    ELSE IF text[i] = "}"
           THEN IF depth - 1 = 0 THEN i
                ELSE MatchingBrace(text, i + 1, depth - 1)
    ELSE MatchingBrace(text, i + 1, depth)

\* founder_analysis_agent/agent.py:93-109 -- _extract_first_json_object: the
\* substring it returns, or the ValueError it raises
ExtractFirstJsonObject(text) ==
    LET start == Find(text, "{")
    IN  IF start = 0
          THEN [raised |-> "No opening brace found in text"]
          ELSE LET end == MatchingBrace(text, start, 0)
               IN  IF end = 0
                     THEN [raised |-> "Unbalanced braces in text"]
                     ELSE [value |-> SubSeq(text, start, end)]

\* str.strip(chars): the text without the leading and trailing characters
\* that are in chars
RECURSIVE LStrip(_, _)
LStrip(text, chars) ==
    IF text # << >> /\ text[1] \in chars THEN LStrip(Tail(text), chars) ELSE text

RECURSIVE RStrip(_, _)
RStrip(text, chars) ==
    IF text # << >> /\ text[Len(text)] \in chars
      THEN RStrip(SubSeq(text, 1, Len(text) - 1), chars)
      ELSE text

Strip(text, chars) == RStrip(LStrip(text, chars), chars)

\* The white space str.strip() removes: the ASCII white space, the
\* separators U+001C-U+001F, the next-line control and the no-break space
Whitespace ==
    {" ", "\t", "\n", "\r", "\f", "<U+000B>", "<U+001C>", "<U+001D>", "<U+001E>",
     "<U+001F>", "<U+0085>", "<U+00A0>"}

\* The character U+0060 of the markdown fence, which a string constant of
\* this language cannot hold.
Backtick == "<U+0060>"

\* str.startswith(prefix)
StartsWith(text, prefix) ==
    Len(text) >= Len(prefix) /\ SubSeq(text, 1, Len(prefix)) = prefix

\* founder_analysis_agent/agent.py:117-123 -- the text without the white
\* space around it, the markdown fence and the word json after the fence
StripFences(raw_input) ==
    LET cleaned == Strip(raw_input, Whitespace)
    IN  IF StartsWith(cleaned, <<Backtick, Backtick, Backtick>>)
          THEN LET unfenced == Strip(Strip(cleaned, {Backtick}), Whitespace)
               IN  IF StartsWith(unfenced, <<"j", "s", "o", "n">>)
                     THEN Strip(SubSeq(unfenced, 5, Len(unfenced)), Whitespace)
                     ELSE unfenced
          ELSE cleaned

\* founder_analysis_agent/agent.py:112-130 -- _clean_json_string on a str:
\* the first JSON object of the fence-stripped text, the fence-stripped text
\* itself when _extract_first_json_object raises (agent.py:125-128)
CleanJsonString(raw_input) ==
    LET cleaned == StripFences(raw_input)
        extracted == ExtractFirstJsonObject(cleaned)
    IN  IF "raised" \in DOMAIN extracted THEN cleaned ELSE extracted.value

\* The longest text.
MaxTextLen == 5

\* All texts of at most n characters over the given characters.
TextsUpTo(n, chars) == UNION {[1..k -> chars] : k \in 0..n}

\* The texts handed to _extract_first_json_object.
BraceTexts == TextsUpTo(MaxTextLen, {"{", "}", "x"})

\* The texts handed to _clean_json_string: a body with or without a fence,
\* the word json and white space around it.
FencedTexts ==
    {prefix \o body \o suffix :
        prefix \in {<< >>, <<" ", "\n">>, <<Backtick, Backtick, Backtick>>,
                    <<Backtick, Backtick, Backtick, "j", "s", "o", "n", "\n">>,
                    <<Backtick, Backtick, Backtick, " ", "j", "s", "o", "n">>,
                    <<"j", "s", "o", "n">>},
        body \in TextsUpTo(MaxTextLen - 2, {"{", "}", "x"}),
        suffix \in {<< >>, <<"\n">>, <<Backtick, Backtick, Backtick>>, <<"\n", Backtick, Backtick, Backtick, " ">>}}

\* founder_analysis_agent/agent.py:93-109 -- one call of
\* _extract_first_json_object
CallExtractFirstJsonObject ==
    /\ eng_pc = "called"
    /\ call.fn = "_extract_first_json_object"
    /\ eng_result' = ExtractFirstJsonObject(call.text)
    /\ eng_pc' = "returned"
    /\ UNCHANGED <<call, notEng>>

\* founder_analysis_agent/agent.py:112-130 -- one call of _clean_json_string
CallCleanJsonString ==
    /\ eng_pc = "called"
    /\ call.fn = "_clean_json_string"
    /\ eng_result' = [value |-> CleanJsonString(call.text)]
    /\ eng_pc' = "returned"
    /\ UNCHANGED <<call, notEng>>

InitJson ==
    /\ ChainIdle
    /\ ImgIdle
    /\ eng_pc = "called"
    /\ \/ call \in [fn : {"_extract_first_json_object"}, text : BraceTexts]
       \/ call \in [fn : {"_clean_json_string"}, text : FencedTexts]
    /\ eng_result = None

NextJson ==
    \/ CallExtractFirstJsonObject
    \/ CallCleanJsonString

SpecJson == InitJson /\ [][NextJson]_vars

\* The number of positions of text up to i that hold ch.
CountUpTo(text, ch, i) == Cardinality({k \in 1..i : text[k] = ch})

\* The brace depth of text after its first i characters.
DepthAt(text, i) == CountUpTo(text, "{", i) - CountUpTo(text, "}", i)

\* The text from its first opening brace on.
FromFirstBrace(text) == SubSeq(text, Find(text, "{"), Len(text))

\* The depth, counted from the first opening brace, returns to zero.
DepthReturnsToZero(text) ==
    /\ Find(text, "{") # 0
    /\ \E i \in 1..Len(FromFirstBrace(text)) : DepthAt(FromFirstBrace(text), i) = 0

\* C25: _extract_first_json_object returns the substring from the first '{'
\* to the first '}' at which the depth counted from that '{' is back at zero:
\* it starts with '{', ends with '}', has as many '{' as '}' and no proper
\* prefix of it is balanced; it raises exactly when there is no '{' or the
\* depth never returns to zero, and _clean_json_string then returns the
\* fence-stripped text.
C25_FirstBalancedObject ==
    /\ (eng_pc = "returned" /\ call.fn = "_extract_first_json_object") =>
          LET text == call.text
              rest == FromFirstBrace(text)
          IN  /\ "raised" \in DOMAIN eng_result <=> ~DepthReturnsToZero(text)
              /\ "value" \in DOMAIN eng_result =>
                    LET value == eng_result.value
                        n == Len(value)
                    IN  /\ n >= 2
                        /\ value = SubSeq(rest, 1, n)
                        /\ value[1] = "{"
                        /\ value[n] = "}"
                        /\ DepthAt(value, n) = 0
                        /\ \A i \in 1..(n - 1) : DepthAt(value, i) > 0
    /\ (eng_pc = "returned" /\ call.fn = "_clean_json_string") =>
          (~DepthReturnsToZero(StripFences(call.text))
              => eng_result = [value |-> StripFences(call.text)])

\* C25 witness: a text with something before the object, a nested object and
\* something after it.
C25_Witness ==
    /\ eng_pc = "returned"
    /\ call.fn = "_extract_first_json_object"
    /\ call.text = <<"x", "{", "{", "}", "}">>
    /\ eng_result = [value |-> <<"{", "{", "}", "}">>]

----------------------------------------------------------------------------
(* insert_founder_data_in_big_query (founder_analysis_agent/agent.py)       *)

\* The documents FounderAnalysisOutput.model_validate_json accepts, of the
\* texts used here: an object with members and a nested object ("x" stands
\* for the members).  Every other text is rejected with a ValidationError.
ValidDocuments == { <<"{", "x", "{", "x", "}", "}">> }

\* Mutant of ModelValidateJson: every text is accepted.
ModelValidateJson_AcceptAll(cleaned_json) ==
    TRUE

\* founder_analysis_agent/agent.py:207 -- does the validation against the
\* schema accept the cleaned text
ModelValidateJson(cleaned_json) ==
    cleaned_json \in ValidDocuments

\* The texts handed to insert_founder_data_in_big_query.
FounderTexts ==
    LET document == <<"{", "x", "{", "x", "}", "}">>
        fence == <<Backtick, Backtick, Backtick>>
    IN  { document,
          fence \o <<"j", "s", "o", "n", "\n">> \o document \o <<"\n">> \o fence,
          <<"x", " ">> \o document \o <<" ", "x">>,
          << >>,
          <<"x">>,
          <<"{", "x", "}">>,
          <<"{", "x", "{", "x", "}">>,
          <<"}", "{">>,
          fence \o <<"x">> \o fence }

\* What the warehouse answers to each operation of one call.
Warehouses ==
    [client : {"ok", "raises"},
     get_dataset : {"exists", "not_found", "raises"},
     create_dataset : {"ok", "raises"},
     get_table : {"exists", "not_found", "raises"},
     create_table : {"ok", "raises"},
     query : {"found", "none", "raises"},
     insert_rows_json : {"ok", "errors", "raises"}]

\* The strings insert_founder_data_in_big_query returns (their fixed part).
ValidationErrorMessage == "JSON validation/parsing error"
SuccessMessage == "Successfully saved founder analysis"
InsertionErrorsMessage == "BigQuery insertion errors"
UnexpectedErrorMessage == "Unexpected BigQuery error"

\* The function's locals: the cleaned text, the warehouse operations made
\* so far, the company id, and the returned string.
FounderLocals(cleaned_json, operations, company_id, message) ==
    [cleaned_json |-> cleaned_json, operations |-> operations,
     company_id |-> company_id, ret |-> message]

\* founder_analysis_agent/agent.py:201-216 -- the first try block: clean,
\* validate, and return the error string when the validation raises
CleanAndValidate ==
    /\ eng_pc = "called"
    /\ call.fn = "insert_founder_data_in_big_query"
    /\ LET cleaned_json == CleanJsonString(call.text)
       IN  IF ModelValidateJson(cleaned_json)
             THEN /\ eng_result' = FounderLocals(cleaned_json, << >>, None, None)
                  /\ eng_pc' = "validated"
             ELSE /\ eng_result' = FounderLocals(cleaned_json, << >>, None,
                                                 ValidationErrorMessage)
                  /\ eng_pc' = "returned"
    /\ UNCHANGED <<call, notEng>>

\* The operations of _ensure_dataset_and_table up to the first that raises
\* (founder_analysis_agent/agent.py:134-161), after the client was made.
EnsureOperations(warehouse) ==
    LET dataset == IF warehouse.get_dataset = "not_found"
                     THEN <<"get_dataset", "create_dataset">>
                     ELSE <<"get_dataset">>
        table == IF warehouse.get_table = "not_found"
                   THEN <<"get_table", "create_table">>
                   ELSE <<"get_table">>
    IN  IF warehouse.get_dataset = "raises" THEN <<"get_dataset">>
        ELSE IF warehouse.get_dataset = "not_found" /\ warehouse.create_dataset = "raises"
               THEN dataset
        ELSE IF warehouse.get_table = "raises" THEN dataset \o <<"get_table">>
        ELSE dataset \o table

\* Did _ensure_dataset_and_table raise.
EnsureRaises(warehouse) ==
    \/ warehouse.get_dataset = "raises"
    \/ warehouse.get_dataset = "not_found" /\ warehouse.create_dataset = "raises"
    \/ warehouse.get_table = "raises"
    \/ warehouse.get_table = "not_found" /\ warehouse.create_table = "raises"

\* founder_analysis_agent/agent.py:218-224, 248-251 -- the client and
\* _ensure_dataset_and_table; whatever raises becomes the error string
EnsureDatasetAndTable ==
    /\ eng_pc = "validated"
    /\ IF call.warehouse.client = "raises"
         THEN /\ eng_result' = [eng_result EXCEPT
                                  !.operations = <<"Client">>,
                                  !.ret = UnexpectedErrorMessage]
              /\ eng_pc' = "returned"
         ELSE /\ eng_result' = [eng_result EXCEPT
                                  !.operations = <<"Client">> \o
                                                 EnsureOperations(call.warehouse),
                                  !.ret = IF EnsureRaises(call.warehouse)
                                            THEN UnexpectedErrorMessage
                                            ELSE None]
              /\ eng_pc' = IF EnsureRaises(call.warehouse)
                             THEN "returned" ELSE "ensured"
    /\ UNCHANGED <<call, notEng>>

\* founder_analysis_agent/agent.py:164-187 -- _get_company_id: the id the
\* lookup found, the generated id when it found none or raised
GetCompanyId(query) ==
    IF query = "found" THEN "company-7" ELSE "unknown_acme"

\* founder_analysis_agent/agent.py:226-227 -- the company lookup
LookUpCompany ==
    /\ eng_pc = "ensured"
    /\ eng_result' = [eng_result EXCEPT
                        !.operations = Append(@, "query"),
                        !.company_id = GetCompanyId(call.warehouse.query)]
    /\ eng_pc' = "identified"
    /\ UNCHANGED <<call, notEng>>

\* founder_analysis_agent/agent.py:229-251 -- the row insert and the string
\* returned
InsertRow ==
    /\ eng_pc = "identified"
    /\ eng_result' = [eng_result EXCEPT
                        !.operations = Append(@, "insert_rows_json"),
                        !.ret = CASE call.warehouse.insert_rows_json = "ok" ->
                                       SuccessMessage
                                  [] call.warehouse.insert_rows_json = "errors" ->
                                       InsertionErrorsMessage
                                  [] call.warehouse.insert_rows_json = "raises" ->
                                       UnexpectedErrorMessage]
    /\ eng_pc' = "returned"
    /\ UNCHANGED <<call, notEng>>

InitFounder ==
    /\ ChainIdle
    /\ ImgIdle
    /\ eng_pc = "called"
    /\ call \in [fn : {"insert_founder_data_in_big_query"},
                 text : FounderTexts, warehouse : Warehouses]
    /\ eng_result = None

NextFounder ==
    \/ CleanAndValidate
    \/ EnsureDatasetAndTable
    \/ LookUpCompany
    \/ InsertRow

SpecFounder == InitFounder /\ [][NextFounder]_vars

\* The strings that report an error.
ErrorStrings ==
    {"JSON validation/parsing error", "BigQuery insertion errors",
     "Unexpected BigQuery error"}

\* The input can be recovered into an object the schema accepts: its first
\* balanced object, fences aside, is a valid document.
Recoverable(text) ==
    LET cleaned == StripFences(text)
    IN  /\ DepthReturnsToZero(cleaned)
        /\ \E n \in 1..Len(FromFirstBrace(cleaned)) :
              /\ DepthAt(FromFirstBrace(cleaned), n) = 0
              /\ \A i \in 1..(n - 1) : DepthAt(FromFirstBrace(cleaned), i) > 0
              /\ SubSeq(FromFirstBrace(cleaned), 1, n) \in ValidDocuments

\* An operation the call made got a failure for an answer; the company
\* lookup is one of the operations in WarehouseFailed and is left out in
\* WarehouseFailedButLookup.
OperationFailed(operation) ==
    /\ \E i \in DOMAIN eng_result.operations : eng_result.operations[i] = operation
    /\ \/ operation = "Client" /\ call.warehouse.client = "raises"
       \/ operation \in {"get_dataset", "get_table", "create_dataset",
                          "create_table", "query"}
            /\ call.warehouse[operation] = "raises"
       \/ operation = "insert_rows_json"
            /\ call.warehouse.insert_rows_json \in {"errors", "raises"}

WarehouseOperations ==
    {"Client", "get_dataset", "create_dataset", "get_table", "create_table",
     "query", "insert_rows_json"}

WarehouseFailed == \E operation \in WarehouseOperations : OperationFailed(operation)

WarehouseFailedButLookup ==
    \E operation \in WarehouseOperations \ {"query"} : OperationFailed(operation)

\* The call has returned a string.
FounderReturned ==
    /\ call.fn = "insert_founder_data_in_big_query"
    /\ eng_pc = "returned"

\* C23 (as claimed): insert_founder_data_in_big_query never raises; an input
\* that cannot be recovered into a valid object gets an error string and no
\* warehouse operation is made; when a warehouse operation fails an error
\* string is returned as well.
C23_ErrorStringOnAnyFailure ==
    /\ FounderReturned =>
          /\ eng_result.ret \in ErrorStrings \cup {"Successfully saved founder analysis"}
          /\ ~Recoverable(call.text) =>
                eng_result.ret \in ErrorStrings /\ eng_result.operations = << >>
          /\ WarehouseFailed => eng_result.ret \in ErrorStrings
    /\ (call.fn = "insert_founder_data_in_big_query" /\ eng_result # None
           /\ ~Recoverable(call.text)) => eng_result.operations = << >>

\* C23 (amended): insert_founder_data_in_big_query never raises; an input
\* that cannot be recovered into a valid object gets an error string and no
\* warehouse operation is made; when a warehouse operation other than the
\* company lookup fails an error string is returned; a failed company lookup
\* is replaced by a generated company id and the insert goes on.
C23_ErrorStringOnFailureButLookup ==
    /\ FounderReturned =>
          /\ eng_result.ret \in ErrorStrings \cup {"Successfully saved founder analysis"}
          /\ ~Recoverable(call.text) =>
                eng_result.ret \in ErrorStrings /\ eng_result.operations = << >>
          /\ WarehouseFailedButLookup => eng_result.ret \in ErrorStrings
          /\ (OperationFailed("query") /\ call.warehouse.insert_rows_json = "ok") =>
                /\ eng_result.ret = "Successfully saved founder analysis"
                /\ eng_result.company_id = "unknown_acme"
    /\ (call.fn = "insert_founder_data_in_big_query" /\ eng_result # None
           /\ ~Recoverable(call.text)) => eng_result.operations = << >>

\* C23 witness: an object the schema rejects came back as an error
\* string with no warehouse operation made.
C23_Witness ==
    /\ FounderReturned
    /\ call.text = <<"{", "x", "}">>
    /\ eng_result.cleaned_json = <<"{", "x", "}">>
    /\ eng_result.ret = "JSON validation/parsing error"
    /\ eng_result.operations = << >>

----------------------------------------------------------------------------
(* Calls of _calculate_percentile_score with two values and one median     *)

\* The values of a pair of calls: the values on and around the thresholds
\* of the medians 2, 10, 30 and 65, and a few beyond.
PairValues == {-20, -13, -5, 0, 1, 2, 3, 4, 5, 7, 8, 9, 10, 11, 12, 13, 14, 15,
               19, 20, 21, 24, 27, 30, 32, 33, 36, 39, 45, 46, 51, 52, 58, 59,
               60, 65, 71, 72, 77, 78, 84, 85, 97, 98, 129, 130, 150}

\* tools.py:277-309 -- the next call of the pair
ScoreNextValue ==
    /\ eng_pc = "called"
    /\ call.fn = "_calculate_percentile_score*"
    /\ Len(eng_result) < Len(call.values)
    /\ LET value == call.values[Len(eng_result) + 1]
       IN  eng_result' = Append(eng_result,
               CalculatePercentileScore10(value, call.median, call.direction,
                                          call.unit))
    /\ UNCHANGED <<eng_pc, call, notEng>>

\* Both calls were made.
ReturnFromPair ==
    /\ eng_pc = "called"
    /\ call.fn = "_calculate_percentile_score*"
    /\ Len(eng_result) = Len(call.values)
    /\ eng_pc' = "returned"
    /\ UNCHANGED <<call, eng_result, notEng>>

InitMonotone ==
    /\ ChainIdle
    /\ ImgIdle
    /\ eng_pc = "called"
    /\ call \in [fn : {"_calculate_percentile_score*"},
                 values : [1..2 -> PairValues], median : ScorerMedians,
                 direction : Directions, unit : ScorerUnits]
    /\ eng_result = << >>

NextMonotone ==
    \/ ScoreNextValue
    \/ ReturnFromPair

SpecMonotone == InitMonotone /\ [][NextMonotone]_vars

\* The two scores of a pair came back.
PairReturned == eng_pc = "returned" /\ call.fn = "_calculate_percentile_score*"

\* C28: for a fixed positive median _calculate_percentile_score is monotone
\* in the value: under higher_better the larger value never gets the lower
\* score, under lower_better it never gets the higher score.
C28_MonotoneInValue ==
    (PairReturned /\ call.median > 0 /\ call.values[1] <= call.values[2]) =>
      IF call.direction = "higher_better"
        THEN eng_result[1] <= eng_result[2]
        ELSE eng_result[1] >= eng_result[2]

\* C28 witness: with the median 65 the value 77 is below the rung 1.2 and 78
\* is on it: the scores 6.0 and 7.0 under higher_better.
C28_Witness ==
    /\ PairReturned
    /\ call.median = 65
    /\ call.direction = "higher_better"
    /\ call.values = <<77, 78>>
    /\ eng_result = <<60, 70>>

----------------------------------------------------------------------------
(* The sector medians of the ratio-scored metrics                          *)

\* tools.py:146, 161, 218 -- the three metrics _generate_dynamic_benchmarks
\* asks a median for, with the default it passes (burn_multiple times 10)
RatioMetricDefaults ==
    [revenue_growth |-> 45, burn_multiple |-> 35, customer_count |-> 500]

\* The names of the metrics scored against those medians
RatioMetricNames == {"revenue_growth_yoy", "burn_multiple", "customer_count"}

\* Sector strings: the four of the table, one the table does not have, one
\* not in lower case and the empty one.
MedianSectors ==
    {S_saas, S_ecommerce, S_fintech, S_marketplace, S_agritech, S_SaaS, << >>}

\* The company_data of the calls: every sector, the ratio-scored fields
\* absent, zero or present.
MedianCompanyDatas ==
    [sector : {<< >>} \cup { <<sector>> : sector \in MedianSectors },
     stage : {<< >>},
     revenue_growth_yoy : {<< >>, <<0>>, <<78>>},
     burn_multiple : {<< >>, <<35>>},
     total_addressable_market : {<< >>},
     technology_differentiation_score : {<< >>},
     team_experience_score : {<< >>},
     customer_count : {<< >>, <<800>>},
     funding_efficiency_score : {<< >>},
     company_id : {<< >>},
     other_values : {<< >>}]

\* tools.py:247-275 -- a call of _get_sector_median
CallGetSectorMedian ==
    /\ eng_pc = "called"
    /\ call.fn = "_get_sector_median"
    /\ eng_result' = GetSectorMedian(call.sector, call.metric, call.default)
    /\ eng_pc' = "returned"
    /\ UNCHANGED <<call, notEng>>

InitMedian ==
    /\ ChainIdle
    /\ ImgIdle
    /\ eng_pc = "called"
    /\ \/ \E metric \in DOMAIN RatioMetricDefaults :
            call \in [fn : {"_get_sector_median"}, sector : MedianSectors,
                      metric : {metric}, default : {RatioMetricDefaults[metric]}]
       \/ call \in [fn : {"analyze_startup_benchmarks"},
                    company_data : MedianCompanyDatas, warehouse : WriteOutcomes]
    /\ eng_result = None

NextMedian ==
    \/ CallGetSectorMedian
    \/ AnalyzeStartupBenchmarks

SpecMedian == InitMedian /\ [][NextMedian]_vars

\* The metrics of a returned benchmark analysis that are scored against a
\* sector median
RatioMetrics ==
    LET benchmark_metrics == eng_result.benchmark_metrics
    IN  { benchmark_metrics.financial_benchmarks[i] :
            i \in 1..Len(benchmark_metrics.financial_benchmarks) }
          \cup { benchmark_metrics.traction_benchmarks[i] :
                   i \in 1..Len(benchmark_metrics.traction_benchmarks) }

\* C29: for every sector string, in the table or not, _get_sector_median
\* returns a strictly positive median for revenue_growth, burn_multiple and
\* customer_count with the defaults of analyze_startup_benchmarks, so no
\* ratio-scored metric of an analysis has the neutral score 5.0 or the
\* assessment "Insufficient data for comparison".
C29_MedianNeverZero ==
    /\ (eng_pc = "returned" /\ call.fn = "_get_sector_median") => eng_result > 0
    /\ (eng_pc = "returned" /\ call.fn = "analyze_startup_benchmarks") =>
          /\ { metric.name : metric \in RatioMetrics } = RatioMetricNames
          /\ \A metric \in RatioMetrics :
                /\ metric.score10 # 50
                /\ metric.assessment # "Insufficient data for comparison"

\* C29 witness: a sector the table does not have got the default medians,
\* and its revenue growth of 78% against the median 45 was scored 8.5.
C29_Witness ==
    /\ eng_pc = "returned"
    /\ call.fn = "analyze_startup_benchmarks"
    /\ call.company_data.sector = <<S_agritech>>
    /\ call.company_data.revenue_growth_yoy = <<78>>
    /\ eng_result.benchmark_metrics.financial_benchmarks[1].score10 = 85
    /\ eng_result.benchmark_metrics.financial_benchmarks[1].assessment
         = "Strong - above sector median"

\* The metric of that name among the ratio-scored metrics of the returned
\* analysis
RatioMetricNamed(name) == CHOOSE metric \in RatioMetrics : metric.name = name

\* C30: a ratio-scored field that is absent from company_data defaults to 0
\* and is scored as the ratio 0, not as missing data: an absent
\* revenue_growth_yoy or customer_count gets the lowest score 2.0, an absent
\* burn_multiple (lower is better) the highest score 10.0.
C30_AbsentFieldScoredAsZero ==
    (eng_pc = "returned" /\ call.fn = "analyze_startup_benchmarks") =>
      /\ call.company_data.revenue_growth_yoy = << >> =>
            /\ RatioMetricNamed("revenue_growth_yoy").score10 = 20
            /\ RatioMetricNamed("revenue_growth_yoy").assessment
                 = "Below Average - underperforming sector"
      /\ call.company_data.customer_count = << >> =>
            /\ RatioMetricNamed("customer_count").score10 = 20
            /\ RatioMetricNamed("customer_count").assessment
                 = "Below Average - underperforming sector"
      /\ call.company_data.burn_multiple = << >> =>
            /\ RatioMetricNamed("burn_multiple").score10 = 100
            /\ RatioMetricNamed("burn_multiple").assessment
                 = "Exceptional - significantly more efficient than sector"

\* C30 witness: a FinTech company_data without any of the three fields got
\* the scores 2.0, 10.0 and 2.0.
C30_Witness ==
    /\ eng_pc = "returned"
    /\ call.fn = "analyze_startup_benchmarks"
    /\ call.company_data.sector = <<S_fintech>>
    /\ call.company_data.revenue_growth_yoy = << >>
    /\ call.company_data.burn_multiple = << >>
    /\ call.company_data.customer_count = << >>
    /\ eng_result.benchmark_metrics.financial_benchmarks[1].score10 = 20
    /\ eng_result.benchmark_metrics.financial_benchmarks[2].score10 = 100
    /\ eng_result.benchmark_metrics.traction_benchmarks[1].score10 = 20

----------------------------------------------------------------------------
(* Properties of the risk factors                                          *)

\* A risk analysis came back.
RisksReturned == eng_pc = "returned" /\ call.fn = "analyze_company_risks"

\* The factor of that name in the returned analysis
FactorNamed(name) ==
    LET risk_factors == eng_result.risk_factors
    IN  risk_factors[CHOOSE i \in 1..Len(risk_factors) : risk_factors[i].name = name]

\* C26: every risk factor produced by _generate_dynamic_risk_factors has a
\* risk_score equal to _calculate_risk_score of that factor's own impact and
\* probability fields.
C26_RiskScoreIsMatrixOfReportedFields ==
    RisksReturned =>
      \A i \in 1..Len(eng_result.risk_factors) :
        LET risk == eng_result.risk_factors[i]
        IN  risk.risk_score = CalculateRiskScore(risk.impact, risk.probability)

\* C27: the Market_Competition factor has risk_score High whatever the
\* competitor_count and market_cap, so at least one of the five factors is
\* High and the overall_risk_score of analyze_company_risks is never Low.
C27_MarketCompetitionHighSoNeverLow ==
    RisksReturned =>
      /\ Len(eng_result.risk_factors) = 5
      /\ FactorNamed("Market_Competition").risk_score = "High"
      /\ HighCount(eng_result.risk_factors) >= 1
      /\ eng_result.overall_risk_score # "Low"

\* C27 witness: few competitors and a large market capitalisation, no other
\* factor High: Market_Competition alone is High and the overall score is
\* Medium.
C27_Witness ==
    /\ RisksReturned
    /\ call.company_data.competitor_count = <<6>>
    /\ call.company_data.market_cap = <<10>>
    /\ FactorNamed("Market_Competition").impact = "Medium"
    /\ FactorNamed("Market_Competition").probability = "Medium"
    /\ FactorNamed("Market_Competition").risk_score = "High"
    /\ HighCount(eng_result.risk_factors) = 1
    /\ eng_result.overall_risk_score = "Medium"

====
